---------------------------- MODULE Spec2Model ----------------------------
(***************************************************************************)
(* A model of yolo-inference.rs: the source loaders (SourceLoader,         *)
(* BatchSourceLoader), the strategy selection of run_prediction and        *)
(* run_online_prediction, and the four inference strategies                *)
(* (sequential_infer, batch_sequential_infer, channel_pipeline_infer,      *)
(* batch_channel_pipeline_infer).                                          *)
(*                                                                         *)
(* Rust vectors are 0-based, TLA+ sequences 1-based: an index i of the     *)
(* code is element i + 1 of the sequence that models the vector.           *)
(* Option<T> is modelled as a sequence: None is << >>, Some(x) is <<x>>.   *)
(***************************************************************************)
EXTENDS Integers, Sequences, FiniteSets, TLC

\* ------------------------------------------------------------------ bounds

\* Longest path list / image list / directory listing of a source.
MaxItems == 3

\* Most frames of the source of an invocation.
MaxFrames == 2

\* Largest batch size tried.
MaxBatch == 2

\* Largest channel capacity tried.
MaxCap == 2

\* Most stage workers that panic in an invocation.
MaxPanics == 1

\* Most invocations made one after the other on a model.
MaxInvocations == 2

\* ------------------------------------------------------------- data types

None == << >>

Some(x) == <<x>>

\* Option::unwrap_or
unwrap_or(opt, default) == IF opt = None THEN default ELSE opt[1]

\* File extensions of the paths tried; "" is a path without extension.
Exts == {"jpg", "PNG", "txt", ""}

\* str::to_lowercase on the extensions tried.
to_lowercase(ext) == IF ext = "PNG" THEN "png" ELSE ext

ImageExts == {"jpg", "jpeg", "png", "bmp", "gif", "webp", "tiff", "tif"}

\* is_image_file comparing the extension as it is spelled.
is_image_file_case_sensitive(path) == path.ext # "" /\ path.ext \in ImageExts

\* source_utils.rs: is_image_file. A path is [id, ext].
is_image_file(path) == path.ext # "" /\ to_lowercase(path.ext) \in ImageExts

\* paths.iter().filter(|p| is_image_file(p)) on a sequence of paths.
RECURSIVE FilterImages(_)
FilterImages(s) ==
    IF s = << >> THEN << >>
    ELSE IF is_image_file(Head(s)) THEN <<Head(s)>> \o FilterImages(Tail(s))
         ELSE FilterImages(Tail(s))

\* std::fs::read_dir that lists nothing, without an error, for a directory
\* it cannot read.
read_dir_lenient(dir) ==
    [ok |-> TRUE,
     entries |-> IF dir.exists /\ dir.readable THEN dir.items ELSE << >>]

\* std::fs::read_dir. A directory is [exists, readable, items]: the call is
\* an io::Error for a directory that is missing and for one that is there
\* and cannot be read.
read_dir(dir) ==
    IF dir.exists /\ dir.readable
    THEN [ok |-> TRUE, entries |-> dir.items]
    ELSE [ok |-> FALSE, entries |-> << >>]

\* source_utils.rs: collect_images_from_dir. The error of read_dir is
\* returned with `?`.
collect_images_from_dir(dir) ==
    LET r == read_dir(dir)
    IN IF ~r.ok THEN [ok |-> FALSE, paths |-> << >>]
       ELSE [ok |-> TRUE, paths |-> FilterImages(r.entries)]

\* FrameData of loader.rs and batch_loader.rs.
FramePath(p) == [tag |-> "Path", id |-> p.id]

FrameImage(img) == [tag |-> "Image", id |-> img.id]

FrameNone == [tag |-> "None", id |-> -1]

\* .map(FrameData::Path).collect()
FramePaths(s) == [i \in 1..Len(s) |-> FramePath(s[i])]

\* .map(FrameData::Image).collect()
FrameImages(s) == [i \in 1..Len(s) |-> FrameImage(s[i])]

\* Source::is_image
is_image(source) == source.kind \in {"ImagePath", "Image"}

\* Source::is_batch
is_batch(source) == source.kind \in {"Directory", "ImagePathVec", "ImageVec"}

\* ----------------------------------------------------------- SourceLoader

\* SourceLoader::new: the frames of a source (paths are not opened).
SourceFrames(source) ==
    CASE source.kind = "ImagePath" ->
           [ok |-> TRUE,
            frames |-> IF is_image_file(source.items[1])
                       THEN <<FramePath(source.items[1])>> ELSE << >>]
      [] source.kind = "Directory" ->
           LET r == collect_images_from_dir(source)
           IN [ok |-> r.ok, frames |-> FramePaths(r.paths)]
      [] source.kind = "ImagePathVec" ->
           [ok |-> TRUE,
            frames |-> FramePaths(FilterImages(source.items))]
      [] source.kind = "Image" ->
           [ok |-> TRUE, frames |-> <<FrameImage(source.items[1])>>]
      [] source.kind = "ImageVec" ->
           [ok |-> TRUE, frames |-> FrameImages(source.items)]

SourceLoader_new(source) ==
    LET r == SourceFrames(source)
    IN [ok |-> r.ok,
        loader |-> [type |-> "SourceLoader", current_idx |-> 0,
                    frames |-> r.frames, len |-> Len(r.frames)]]

\* SourceLoader::len
SourceLoader_len(l) == l.len

\* ------------------------------------------------------ BatchSourceLoader

\* The while loop of pad_and_chunk: push FrameData::None until the length
\* is a multiple of batch_size. Returns <<padded frames, num_pads>>.
RECURSIVE PadLoop(_, _, _)
PadLoop(frames_vec, batch_size, num_pads) ==
    IF Len(frames_vec) % batch_size # 0
    THEN PadLoop(Append(frames_vec, FrameNone), batch_size, num_pads + 1)
    ELSE <<frames_vec, num_pads>>

\* slice::chunks(batch_size)
Chunks(v, batch_size) ==
    [b \in 1..((Len(v) + batch_size - 1) \div batch_size) |->
        SubSeq(v, (b - 1) * batch_size + 1,
               IF b * batch_size < Len(v) THEN b * batch_size ELSE Len(v))]

\* pad_and_chunk with the padding slots left uncounted.
pad_and_chunk_uncounted(frames_vec, batch_size) ==
    LET p == PadLoop(frames_vec, batch_size, 0)
    IN [batches |-> Chunks(p[1], batch_size), num_pads |-> 0]

\* BatchSourceLoader::pad_and_chunk
pad_and_chunk(frames_vec, batch_size) ==
    LET p == PadLoop(frames_vec, batch_size, 0)
    IN [batches |-> Chunks(p[1], batch_size), num_pads |-> p[2]]

\* Every source chunked into batches of one frame.
EffectiveBatchSize_one(batch_size) == 1

\* An absent or zero batch size replaced by the batch size of
\* PredictArgs::default().
EffectiveBatchSize_default(batch_size) ==
    IF batch_size # None /\ batch_size[1] > 0 THEN batch_size[1] ELSE 4

\* The batch size BatchSourceLoader::new uses: Some(size) if size > 0, else 1.
EffectiveBatchSize(batch_size) ==
    IF batch_size # None /\ batch_size[1] > 0 THEN batch_size[1] ELSE 1

\* The (batches, num_pads) match of BatchSourceLoader::new.
BatchesOf(source, batch_size) ==
    CASE source.kind = "ImagePath" ->
           [ok |-> TRUE,
            batches |-> IF is_image_file(source.items[1])
                        THEN << <<FramePath(source.items[1])>> >> ELSE << >>,
            num_pads |-> 0]
      [] source.kind = "Directory" ->
           LET r == collect_images_from_dir(source)
               c == pad_and_chunk(FramePaths(r.paths), batch_size)
           IN [ok |-> r.ok,
               batches |-> IF r.ok THEN c.batches ELSE << >>,
               num_pads |-> IF r.ok THEN c.num_pads ELSE 0]
      [] source.kind = "ImagePathVec" ->
           LET c == pad_and_chunk(
                      FramePaths(FilterImages(source.items)),
                      batch_size)
           IN [ok |-> TRUE, batches |-> c.batches, num_pads |-> c.num_pads]
      [] source.kind = "Image" ->
           [ok |-> TRUE,
            batches |-> << <<FrameImage(source.items[1])>> >>,
            num_pads |-> 0]
      [] source.kind = "ImageVec" ->
           LET c == pad_and_chunk(FrameImages(source.items), batch_size)
           IN [ok |-> TRUE, batches |-> c.batches, num_pads |-> c.num_pads]

BatchSourceLoader_new(source, batch_size) ==
    LET bs == EffectiveBatchSize(batch_size)
        r == BatchesOf(source, bs)
        len == Len(r.batches)
    IN [ok |-> r.ok,
        loader |-> [type |-> "BatchSourceLoader", current_idx |-> 0,
                    batches |-> r.batches, len |-> len, batch_size |-> bs,
                    total_frames |-> len * bs - r.num_pads]]

\* BatchSourceLoader::len
BatchSourceLoader_len(l) == l.len

\* BatchSourceLoader::total_frames
total_frames(l) == l.total_frames

\* ---------------------------------------------------------------- state

VARIABLES
    args,            \* the PredictArgs of the invocation, with its source
    pc,              \* where the calling thread is
    infer_fn,        \* the strategy selected for the invocation
    loader,          \* the SourceLoader or BatchSourceLoader
    yielded,         \* history: the items the loader's next() has returned
    decode_failed,   \* history: the frame indices whose image::open failed
    infer_failed,    \* the sticky flag of the batched strategies
    calls,           \* history: the calls made to the inference engine
    load_ch,         \* channel load -> infer
    infer_ch,        \* channel infer -> annotate
    annotate_ch,     \* channel annotate -> save
    save_ch,         \* channel save -> collect
    worker,          \* the five stage workers of a pipeline strategy
    return_results,  \* the retained InferResult list
    pb,              \* the position of the progress bar
    failures,        \* history: the failures met, as <<frame_idx, stage>>
    dir,             \* the directory args.save_dir names: [exists, files]
    fs_ops,          \* history: the operations on that directory
    earlier,         \* history: the value of the flag at the return of each
                     \* earlier invocation on the same model
    send_failed      \* history: the workers whose send to the next stage
                     \* has returned an error

loaderVars == <<loader, yielded, decode_failed>>

engineVars == <<infer_failed, calls>>

pipeVars == <<load_ch, infer_ch, annotate_ch, save_ch, worker>>

outVars == <<return_results, pb, failures>>

fsVars == <<dir, fs_ops>>

vars == <<args, pc, infer_fn, loaderVars, engineVars, pipeVars, outVars, fsVars,
          earlier, send_failed>>

NoLoader == [type |-> "none"]

Stages == {"load", "infer", "annotate", "save", "collect"}

\* ------------------------------------------------------- loader iteration

\* SourceMeta
SourceMeta(frame_idx, total, source_path) ==
    [frame_idx |-> frame_idx, total_frames |-> total, source_path |-> source_path]

\* SourceLoader::next ending the iteration at the first failed decode
\* instead of going on to the next frame.
SourceLoader_next_stop(l) ==
    IF l.current_idx >= l.len
    THEN {[loader |-> l, item |-> None, failed |-> {}]}
    ELSE LET frame_data == l.frames[l.current_idx + 1]
             meta == SourceMeta(l.current_idx, l.len,
                                IF frame_data.tag = "Path"
                                THEN Some(frame_data.id) ELSE None)
         IN {[loader |-> [l EXCEPT !.current_idx = @ + 1],
              item |-> Some([image |-> frame_data.id, meta |-> meta]),
              failed |-> {}]}
            \cup (IF frame_data.tag = "Path"
                  THEN {[loader |-> [l EXCEPT !.current_idx = l.len],
                         item |-> None, failed |-> {l.current_idx}]}
                  ELSE {})

\* SourceLoader::next. image::open may fail for a path, so the result is a
\* set: each element is [loader, item, failed], item None at the end of the
\* iteration and Some([image, meta]) otherwise, failed the indices skipped
\* by this call because their decode failed.
RECURSIVE SourceLoader_next(_)
SourceLoader_next(l) ==
    IF l.current_idx >= l.len
    THEN {[loader |-> l, item |-> None, failed |-> {}]}
    ELSE LET frame_data == l.frames[l.current_idx + 1]
             meta == SourceMeta(l.current_idx, l.len,
                                IF frame_data.tag = "Path"
                                THEN Some(frame_data.id) ELSE None)
             opened == [loader |-> [l EXCEPT !.current_idx = @ + 1],
                        item |-> Some([image |-> frame_data.id, meta |-> meta]),
                        failed |-> {}]
             skipped == IF frame_data.tag = "Path"
                        THEN {[r EXCEPT !.failed = @ \cup {l.current_idx}] :
                                r \in SourceLoader_next(
                                        [l EXCEPT !.current_idx = @ + 1])}
                        ELSE {}
         IN {opened} \cup skipped

\* BatchMeta without the offset of the batch.
BatchMeta_no_offset(l, i, frame_data) ==
    SourceMeta(i, l.len * l.batch_size,
               IF frame_data.tag = "Path" THEN Some(frame_data.id) ELSE None)

\* The meta BatchSourceLoader::next builds for slot i of the current batch.
BatchMeta(l, i, frame_data) ==
    SourceMeta(l.current_idx * l.batch_size + i, l.len * l.batch_size,
               IF frame_data.tag = "Path" THEN Some(frame_data.id) ELSE None)

\* The slots of the current batch that next() pushes when the decodes of
\* the slots in `failed` fail: FrameData::None is skipped.
BatchKeptSlots(batch_frames, failed) ==
    SelectSeq([i \in 1..Len(batch_frames) |-> i - 1],
              LAMBDA i : batch_frames[i + 1].tag # "None" /\ i \notin failed)

\* BatchSourceLoader::next, as a set of results like SourceLoader_next; item
\* is Some([images, metas]).
BatchSourceLoader_next(l) ==
    IF l.current_idx >= l.len
    THEN {[loader |-> l, item |-> None, failed |-> {}]}
    ELSE LET batch_frames == l.batches[l.current_idx + 1]
             paths == {i \in 0..(Len(batch_frames) - 1) :
                         batch_frames[i + 1].tag = "Path"}
         IN {LET kept == BatchKeptSlots(batch_frames, failed)
             IN [loader |-> [l EXCEPT !.current_idx = @ + 1],
                 item |-> Some(
                    [images |-> [k \in 1..Len(kept) |->
                                    batch_frames[kept[k] + 1].id],
                     metas |-> [k \in 1..Len(kept) |->
                                    BatchMeta(l, kept[k],
                                              batch_frames[kept[k] + 1])]]),
                 failed |-> {l.current_idx * l.batch_size + i : i \in failed}]
             : failed \in SUBSET paths}

\* --------------------------------------------- the loaders on their own

Kinds == {"ImagePath", "Directory", "ImagePathVec", "Image", "ImageVec"}

\* Paths and images are numbered by their place in the source; every path
\* has a file stem of its own.
ItemsOf(exts) ==
    [i \in 1..Len(exts) |-> [id |-> i - 1, ext |-> exts[i], stem |-> i - 1]]

\* The same paths with one file stem for all: a/x.jpg, b/x.jpg, ...
SameStem(items) == [i \in 1..Len(items) |-> [items[i] EXCEPT !.stem = 0]]

SeqsUpTo(S, n) == UNION {[1..k -> S] : k \in 0..n}

\* A directory source whose directory does not exist.
MissingDir ==
    [kind |-> "Directory", exists |-> FALSE, readable |-> FALSE, items |-> << >>]

\* A directory source whose directory holds an image and cannot be read.
UnreadableDir ==
    [kind |-> "Directory", exists |-> TRUE, readable |-> FALSE,
     items |-> ItemsOf(<<"jpg">>)]

\* The sources tried: n items for the list kinds, one for the single kinds;
\* an in-memory image has the extension "mem".
Sources ==
    {[kind |-> k, exists |-> TRUE, readable |-> TRUE, items |-> ItemsOf(e)] :
        k \in {"Directory", "ImagePathVec"}, e \in SeqsUpTo(Exts, MaxItems)}
    \cup {MissingDir, UnreadableDir}
    \cup {[kind |-> "ImagePath", exists |-> TRUE, readable |-> TRUE,
           items |-> ItemsOf(<<e>>)] : e \in Exts}
    \cup {[kind |-> "Image", exists |-> TRUE, readable |-> TRUE,
           items |-> ItemsOf(<<"mem">>)]}
    \cup {[kind |-> "ImageVec", exists |-> TRUE, readable |-> TRUE,
           items |-> ItemsOf([i \in 1..n |-> "mem"])] : n \in 0..MaxItems}

\* The batch sizes tried: absent, 0, and 1..MaxBatch + 1.
BatchArgs == {None} \cup {Some(n) : n \in 0..(MaxBatch + 1)}

\* No directory at the path.
NoDir == [exists |-> FALSE, files |-> {}]

\* A directory left by an earlier run, with a file in it.
StaleFile == <<"stale", 0>>

StaleDir == [exists |-> TRUE, files |-> {StaleFile}]

InitIdle ==
    /\ infer_fn = "unset"
    /\ infer_failed = FALSE
    /\ calls = << >>
    /\ load_ch = << >> /\ infer_ch = << >> /\ annotate_ch = << >> /\ save_ch = << >>
    /\ worker = [w \in Stages |-> [pc |-> "unspawned", hold |-> << >>]]
    /\ return_results = << >>
    /\ pb = 0
    /\ failures = {}
    /\ fs_ops = << >>
    /\ earlier = << >>
    /\ send_failed = {}

InitSource ==
    /\ args \in [source : Sources, batch : BatchArgs]
    /\ dir = NoDir
    /\ pc = "new"
    /\ loader = NoLoader
    /\ yielded = << >>
    /\ decode_failed = {}
    /\ InitIdle

\* A constructor that opens every path of the source at once: the frame
\* indices of the paths the loader holds.
OpensAtNew_eager(l) ==
    IF l.type = "SourceLoader"
    THEN {i - 1 : i \in {k \in 1..Len(l.frames) : l.frames[k].tag = "Path"}}
    ELSE UNION {{(b - 1) * l.batch_size + (i - 1) :
                   i \in {k \in 1..Len(l.batches[b]) :
                            l.batches[b][k].tag = "Path"}}
                : b \in 1..Len(l.batches)}

\* The frame indices whose image the constructor of a loader opens: none,
\* new() stores the paths as FrameData::Path and clones in-memory images.
OpensAtNew(l) == {}

\* History: the opens of the constructor that fail.
ConstructorOpens(r) ==
    \E f \in SUBSET (IF r.ok THEN OpensAtNew(r.loader) ELSE {}) :
       decode_failed' = decode_failed \cup f

\* let loader = SourceLoader::new(source)?
NewSourceLoader ==
    /\ pc = "new"
    /\ LET r == SourceLoader_new(args.source)
       IN /\ pc' = IF r.ok THEN "iter" ELSE "error"
          /\ loader' = IF r.ok THEN r.loader ELSE loader
          /\ ConstructorOpens(r)
    /\ UNCHANGED <<args, earlier, send_failed, fsVars, infer_fn, yielded, engineVars,
                   pipeVars, outVars>>

\* let loader = BatchSourceLoader::new(source, batch)?
NewBatchSourceLoader ==
    /\ pc = "new"
    /\ LET r == BatchSourceLoader_new(args.source, args.batch)
       IN /\ pc' = IF r.ok THEN "iter" ELSE "error"
          /\ loader' = IF r.ok THEN r.loader ELSE loader
          /\ ConstructorOpens(r)
    /\ UNCHANGED <<args, earlier, send_failed, fsVars, infer_fn, yielded, engineVars,
                   pipeVars, outVars>>

\* One call of next() by a for loop over the loader; None ends the loop.
Advance(r) ==
    /\ loader' = r.loader
    /\ yielded' = IF r.item = None THEN yielded ELSE Append(yielded, r.item[1])
    /\ decode_failed' = decode_failed \cup r.failed

SourceLoaderStep ==
    /\ pc = "iter" /\ loader.type = "SourceLoader"
    /\ \E r \in SourceLoader_next(loader) :
          /\ Advance(r)
          /\ pc' = IF r.item = None THEN "done" ELSE pc
    /\ UNCHANGED <<args, earlier, send_failed, fsVars, infer_fn, engineVars, pipeVars, outVars>>

BatchSourceLoaderStep ==
    /\ pc = "iter" /\ loader.type = "BatchSourceLoader"
    /\ \E r \in BatchSourceLoader_next(loader) :
          /\ Advance(r)
          /\ pc' = IF r.item = None THEN "done" ELSE pc
    /\ UNCHANGED <<args, earlier, send_failed, fsVars, infer_fn, engineVars, pipeVars, outVars>>

NextSource ==
    \/ NewSourceLoader
    \/ NewBatchSourceLoader
    \/ SourceLoaderStep
    \/ BatchSourceLoaderStep

SpecSource == InitSource /\ [][NextSource]_vars

\* ------------------------------------------------- the inference engine

\* The outcomes of model.predict_image seen by a strategy: Ok with a
\* result, Err, or Ok with an empty result list.
PredictImageOutcomes == {"ok", "err", "empty"}

\* The match on predict_image and on results_vec.into_iter().next(): the
\* outcome of one image, Some(result) or None.
ResultOf(image, out) == IF out = "ok" THEN Some([image |-> image]) ELSE None

\* An entry of the engine call history.
Call(fn, at, out, n) == [fn |-> fn, at |-> at, out |-> out, n |-> n]

\* batch_infer_fallback that leaves out the first image of the batch.
batch_infer_fallback_skip_first(images, metas) ==
    {[results |-> [j \in 1..Len(images) |->
                      IF j = 1 THEN None ELSE ResultOf(images[j], outs[j])],
      calls |-> [j \in 1..(Len(images) - 1) |->
                   Call("predict_image", metas[j + 1].frame_idx, outs[j + 1], 1)]]
     : outs \in [1..Len(images) -> PredictImageOutcomes]}

\* The first image whose predict_image gives no result, or one past the
\* last image.
FirstBad(outs) ==
    LET bad == {j \in 1..Len(outs) : outs[j] # "ok"}
    IN IF bad = {} THEN Len(outs) + 1
       ELSE CHOOSE j \in bad : \A i \in bad : j <= i

\* batch_infer_fallback that gives up at the first image without a result:
\* the images after it are not inferred.
batch_infer_fallback_stop_at_error(images, metas) ==
    {LET e == FirstBad(outs)
         last == IF e > Len(images) THEN Len(images) ELSE e
     IN [results |-> [j \in 1..Len(images) |->
                        IF j < e THEN ResultOf(images[j], outs[j]) ELSE None],
         calls |-> [j \in 1..last |->
                      Call("predict_image", metas[j].frame_idx, outs[j], 1)]]
     : outs \in [1..Len(images) -> PredictImageOutcomes]}

\* batch_utils.rs: batch_infer_fallback. One predict_image per image, in
\* input order; the set ranges over the engine's outcomes.
batch_infer_fallback(images, metas) ==
    {[results |-> [j \in 1..Len(images) |-> ResultOf(images[j], outs[j])],
      calls |-> [j \in 1..Len(images) |->
                   Call("predict_image", metas[j].frame_idx, outs[j], 1)]]
     : outs \in [1..Len(images) -> PredictImageOutcomes]}

\* The flag left unset when predict_batch fails.
on_batch_error_unset(flag) == flag

\* infer_failed = true, in the Err arm of the match on predict_batch.
on_batch_error(flag) == TRUE

\* The batched inference of one batch: predict_batch unless the flag is
\* set, the fallback when predict_batch fails or the flag is set. Ok(vec)
\* may hold fewer results than the batch has images (k of them).
InferBatch(batch_idx, images, metas, flag) ==
    IF ~flag
    THEN {[results |-> [j \in 1..k |-> Some([image |-> images[j]])],
           calls |-> <<Call("predict_batch", batch_idx, "ok", k)>>,
           infer_failed |-> flag] : k \in 0..Len(images)}
         \cup
         {[results |-> f.results,
           calls |-> <<Call("predict_batch", batch_idx, "err", 0)>> \o f.calls,
           infer_failed |-> on_batch_error(flag)]
          : f \in batch_infer_fallback(images, metas)}
    ELSE {[results |-> f.results, calls |-> f.calls, infer_failed |-> flag]
          : f \in batch_infer_fallback(images, metas)}

\* ------------------------------------------------- annotation and saving

\* The outcomes of the annotation step: not run, Ok(img), Err.
AnnotateOutcomes == IF args.annotate THEN {"ok", "err"} ELSE {"none"}

\* The outcomes of the save step for a frame: not run unless a save_dir is
\* configured and the frame has an annotated image.
SaveOutcomes(annotated) ==
    IF args.save_dir # None /\ annotated THEN {"ok", "err"} ELSE {"none"}

\* A failed save lets the frame through.
save_passes_always(s) == TRUE

\* if annotated_img.save(&save_path).is_err() { continue; }
save_passes(s) == s # "err"

\* A failed annotation lets the frame through.
annotate_passes_always(a) == TRUE

\* Err(e) => { ...; continue; } on annotate_image
annotate_passes(a) == a # "err"

\* What the loop body of a sequential strategy does with a frame that has
\* a result: the set of [annotate, save] outcomes it can meet.
PostOutcomes ==
    {[annotate |-> a, save |-> s] :
        a \in AnnotateOutcomes, s \in {"ok", "err", "none"}}

PostPossible(p) ==
    IF ~annotate_passes(p.annotate) THEN p.save = "none"
    ELSE p.save \in SaveOutcomes(p.annotate = "ok")

\* The stage at which the loop body leaves the frame.
Fate(p) ==
    IF ~annotate_passes(p.annotate) THEN "annotate"
    ELSE IF ~save_passes(p.save) THEN "save"
    ELSE "collect"

InferResult(result, annotated, meta) ==
    [result |-> result, annotated |-> annotated, meta |-> meta]

\* if let Some(vec) = return_results { vec.push(r) }
Push(rr, r) == IF rr = None THEN None ELSE Some(Append(rr[1], r))

\* if let Some(vec) = return_results.as_mut() { vec.clear(); ... }
Cleared(rr) == IF rr = None THEN None ELSE Some(<< >>)

\* ------------------------------------------------------- an invocation

InferFns == {"Sequential", "BatchSequential", "ChannelPipeline",
             "BatchChannelPipeline"}

\* PredictArgs::default(): channel_capacity.unwrap_or(8)
DefaultCapacity == 8

\* The sources of an invocation: n paths with an image extension, a
\* directory that is missing or unreadable, a list of paths that share
\* their file stem, and paths without an image extension.
RunSources ==
    {[kind |-> k, exists |-> TRUE, readable |-> TRUE,
      items |-> ItemsOf([i \in 1..n |-> "jpg"])] :
        k \in {"Directory", "ImagePathVec"}, n \in 0..MaxFrames}
    \cup {MissingDir, UnreadableDir}
    \cup {[kind |-> "ImagePathVec", exists |-> TRUE, readable |-> TRUE,
           items |-> SameStem(ItemsOf([i \in 1..MaxFrames |-> "jpg"]))]}
    \cup {[kind |-> k, exists |-> TRUE, readable |-> TRUE,
           items |-> ItemsOf(<<"txt">>)] :
            k \in {"Directory", "ImagePathVec", "ImagePath"}}
    \cup {[kind |-> "ImagePath", exists |-> TRUE, readable |-> TRUE,
           items |-> ItemsOf(<<"jpg">>)]}
    \cup {[kind |-> "Image", exists |-> TRUE, readable |-> TRUE,
           items |-> ItemsOf(<<"mem">>)]}
    \cup {[kind |-> "ImageVec", exists |-> TRUE, readable |-> TRUE,
           items |-> ItemsOf([i \in 1..n |-> "mem"])] : n \in 0..MaxFrames}

\* PredictArgs::default(): batch: Some(4)
DefaultBatch == 4

\* The selection with the configured strategy used for every source.
SelectInferFn_configured(source, configured) == configured

\* The strategy run_prediction and run_online_prediction select.
SelectInferFn(source, configured) ==
    IF is_image(source) THEN "Sequential" ELSE configured

\* Whether the invocation runs a strategy that reads args.batch.
ReadsBatch(a) ==
    ~is_image(a.source)
    /\ a.infer_fn \in {"BatchSequential", "BatchChannelPipeline"}

\* Whether the invocation runs a strategy that reads args.channel_capacity.
ReadsCapacity(a) ==
    ~is_image(a.source)
    /\ a.infer_fn \in {"ChannelPipeline", "BatchChannelPipeline"}

\* The arguments of an invocation. online tells the entry point called:
\* run_online_prediction or run_prediction. batch and channel_capacity
\* range over 1..MaxBatch and 1..MaxCap for the strategies that read them
\* and keep the value of PredictArgs::default() for the others.
RunArgs ==
    {a \in [online : BOOLEAN,
            source : RunSources,
            infer_fn : InferFns,
            batch : {Some(n) : n \in (1..MaxBatch) \cup {DefaultBatch}},
            channel_capacity : {Some(n) : n \in (1..MaxCap) \cup {DefaultCapacity}},
            annotate : BOOLEAN,
            save_dir : {None, Some("out")},
            return_result : BOOLEAN] :
        /\ IF ReadsBatch(a) THEN a.batch[1] <= MaxBatch
           ELSE a.batch = Some(DefaultBatch)
        /\ IF ReadsCapacity(a) THEN a.channel_capacity[1] <= MaxCap
           ELSE a.channel_capacity = Some(DefaultCapacity)}

Init ==
    /\ args \in RunArgs
    /\ dir \in (IF args.save_dir = None THEN {NoDir} ELSE {NoDir, StaleDir})
    /\ pc = "start"
    /\ loader = NoLoader
    /\ yielded = << >>
    /\ decode_failed = {}
    /\ InitIdle


\* run_online_prediction without its check of the source.
OnlineAccepts_any(source) == TRUE

\* run_online_prediction: only in-memory sources are accepted.
OnlineAccepts(source) == source.kind \in {"Image", "ImageVec"}

\* The part of both entry points that selects the strategy and creates
\* final_results, up to the call of auto_infer.
SelectAndStart ==
    /\ pc' = "selected"
    /\ infer_fn' = SelectInferFn(args.source, args.infer_fn)
    /\ return_results' = IF args.return_result THEN Some(<< >>) ELSE None

\* run_prediction, up to the call of auto_infer.
run_prediction ==
    /\ pc = "start" /\ ~args.online
    /\ SelectAndStart
    /\ UNCHANGED <<args, earlier, send_failed, fsVars, loaderVars, engineVars, pipeVars, pb, failures>>

\* run_online_prediction, up to the call of auto_infer: a source that is
\* not in memory is refused with AppError::Config.
run_online_prediction ==
    /\ pc = "start" /\ args.online
    /\ IF ~OnlineAccepts(args.source)
       THEN /\ pc' = "config_error"
            /\ UNCHANGED <<infer_fn, return_results>>
       ELSE SelectAndStart
    /\ UNCHANGED <<args, earlier, send_failed, fsVars, loaderVars, engineVars, pipeVars, pb, failures>>

\* One operation on the directory, as recorded in fs_ops.
FsOp(op, by, out) == [op |-> op, by |-> by, out |-> out]

\* std::fs::remove_dir_all
remove_dir_all(d) == NoDir

\* std::fs::create_dir_all: an existing directory is left as it is.
create_dir_all(d) == [exists |-> TRUE, files |-> d.files]

\* The prologue without the clearing of an existing directory.
SaveDirOps_keep(d) == <<"create_dir_all">>

\* if dir.is_dir() { remove_dir_all(dir) } create_dir_all(dir)
SaveDirOps(d) ==
    IF d.exists THEN <<"remove_dir_all", "create_dir_all">>
    ELSE <<"create_dir_all">>

\* The operations of SaveDirOps run in order until one fails: k of them
\* succeed and, when k is not all of them, the next one fails.
RECURSIVE RunOps(_, _, _)
RunOps(d, ops, k) ==
    IF k = 0 \/ ops = << >> THEN d
    ELSE RunOps(IF Head(ops) = "remove_dir_all" THEN remove_dir_all(d)
                ELSE create_dir_all(d),
                Tail(ops), k - 1)

\* The save directory is the directory of the source: save_dir names the
\* path that Source::Directory names.
SaveDirIsSource(a) ==
    a.save_dir = Some("src") /\ a.source.kind = "Directory"

\* The source after k operations of ops on the save directory left it as
\* d. When the save directory is the directory of the source,
\* remove_dir_all removes the images of the source with everything else
\* in it, and create_dir_all leaves an empty directory that can be read.
SourceAfter(a, ops, k, d) ==
    IF SaveDirIsSource(a)
    THEN [a.source EXCEPT
            !.exists = d.exists,
            !.readable = d.exists,
            !.items = IF k >= 1 /\ ops[1] = "remove_dir_all" THEN << >> ELSE @]
    ELSE a.source

\* The first part of the prologue of each of the four strategies, run by
\* the calling thread: the save directory is cleared and created; a
\* failure of either operation is a panic (expect).
prepare_save_dir ==
    /\ pc = "selected"
    /\ IF args.save_dir = None
       THEN /\ pc' = "prepared"
            /\ UNCHANGED <<args, fsVars>>
       ELSE LET ops == SaveDirOps(dir)
            IN \E k \in 0..Len(ops) :
                  /\ dir' = RunOps(dir, ops, k)
                  /\ args' = [args EXCEPT
                                !.source = SourceAfter(args, ops, k, dir')]
                  /\ fs_ops' = fs_ops
                       \o [i \in 1..k |-> FsOp(ops[i], "caller", "ok")]
                       \o (IF k < Len(ops)
                           THEN <<FsOp(ops[k + 1], "caller", "err")>>
                           ELSE << >>)
                  /\ pc' = IF k = Len(ops) THEN "prepared" ELSE "panic"
    /\ UNCHANGED <<earlier, send_failed, infer_fn, loaderVars, engineVars, pipeVars, outVars>>

\* The flag kept in a static: an invocation starts with the value the one
\* before it left.
new_infer_failed_static(flag) == flag

\* let mut infer_failed = false, in the two batched strategies.
new_infer_failed(flag) == FALSE

\* The rest of the prologue of a strategy: the loader is built (an error
\* is returned to the caller), return_results is cleared, the batched
\* strategies create their flag, and a pipeline strategy spawns its five
\* workers.
Begin(strategy, r, spawn) ==
    /\ pc = "prepared" /\ infer_fn = strategy
    /\ ConstructorOpens(r)
    /\ IF r.ok
       THEN /\ pc' = "run"
            /\ loader' = r.loader
            /\ return_results' = Cleared(return_results)
            /\ infer_failed' =
                  IF strategy \in {"BatchSequential", "BatchChannelPipeline"}
                  THEN new_infer_failed(infer_failed) ELSE infer_failed
            /\ worker' = IF spawn
                         THEN [w \in Stages |-> [pc |-> "recv", hold |-> << >>]]
                         ELSE worker
       ELSE /\ pc' = "error"
            /\ UNCHANGED <<loader, return_results, worker, infer_failed>>
    /\ UNCHANGED <<args, earlier, send_failed, fsVars, infer_fn, yielded, calls,
                   load_ch, infer_ch, annotate_ch, save_ch, pb, failures>>

sequential_infer_begin ==
    Begin("Sequential", SourceLoader_new(args.source), FALSE)

batch_sequential_infer_begin ==
    Begin("BatchSequential",
          BatchSourceLoader_new(args.source, Some(unwrap_or(args.batch, 1))),
          FALSE)

channel_pipeline_infer_begin ==
    Begin("ChannelPipeline", SourceLoader_new(args.source), TRUE)

batch_channel_pipeline_infer_begin ==
    Begin("BatchChannelPipeline",
          BatchSourceLoader_new(args.source, Some(unwrap_or(args.batch, 1))),
          TRUE)

\* Path::file_stem of the path numbered path_id in the source.
file_stem(path_id) == args.source.items[path_id + 1].stem

\* frame_stem that keeps the paths of a source apart.
frame_stem_by_path(meta) ==
    IF meta.source_path = None THEN <<"frame", meta.frame_idx>>
    ELSE <<"path", meta.source_path[1]>>

\* SourceMeta::frame_stem: the file stem of the source path, or
\* frame_{frame_idx} for a frame without a path.
frame_stem(meta) ==
    IF meta.source_path = None THEN <<"frame", meta.frame_idx>>
    ELSE <<"stem", file_stem(meta.source_path[1])>>

\* annotated_img.save(dir.join(format!("{}.png", frame_stem))) by thread
\* `by`, with outcome sv; "none" when the save is not run.
SaveTo(d, meta, sv) ==
    IF sv = "ok" THEN [d EXCEPT !.files = @ \cup {frame_stem(meta)}] ELSE d

SaveOp(ops, meta, by, sv) ==
    IF sv = "none" THEN ops
    ELSE Append(ops, [op |-> "save", by |-> by, out |-> sv,
                      at |-> meta.frame_idx])

NoPost == [annotate |-> "none", save |-> "none"]

\* History: the failures a frame met: no inference result, an annotation
\* error, a save error.
FrameFailures(frame_idx, no_result, p) ==
    {<<frame_idx, "infer">> : x \in {y \in {0} : no_result}}
    \cup {<<frame_idx, "annotate">> : x \in {y \in {0} : p.annotate = "err"}}
    \cup {<<frame_idx, "save">> : x \in {y \in {0} : p.save = "err"}}

\* The progress bar of sequential_infer wraps the loader
\* (ProgressIterator): it advances when next() yields a frame.
progress_on_yield(n) == n + 1

\* One iteration of the for loop of sequential_infer, next() included.
sequential_infer_step ==
    /\ pc = "run" /\ infer_fn = "Sequential"
    /\ \E r \in SourceLoader_next(loader) :
          /\ Advance(r)
          /\ IF r.item = None
             THEN /\ pc' = "done"
                  /\ UNCHANGED <<calls, return_results, pb, failures, fsVars>>
             ELSE \E out \in PredictImageOutcomes, p \in PostOutcomes \cup {NoPost} :
                    LET image == r.item[1].image
                        meta == r.item[1].meta
                        result == ResultOf(image, out)
                        fate == IF result = None THEN "infer" ELSE Fate(p)
                    IN /\ IF result # None THEN p \in PostOutcomes /\ PostPossible(p)
                          ELSE p = NoPost
                       /\ pc' = pc
                       /\ pb' = progress_on_yield(pb)
                       /\ dir' = SaveTo(dir, meta, p.save)
                       /\ fs_ops' = SaveOp(fs_ops, meta, "caller", p.save)
                       /\ calls' = Append(calls,
                                     Call("predict_image", meta.frame_idx, out, 1))
                       /\ failures' = failures
                            \cup FrameFailures(meta.frame_idx, out # "ok", p)
                       /\ return_results' =
                            IF fate = "collect"
                            THEN Push(return_results,
                                      InferResult(result[1], p.annotate = "ok",
                                                  meta))
                            ELSE return_results
    /\ UNCHANGED <<args, earlier, send_failed, infer_fn, infer_failed, pipeVars>>

\* The for loop over batch_results of batch_sequential_infer, from result
\* j on: the results retained, in order.
RECURSIVE CollectBatch(_, _, _, _, _, _)
CollectBatch(rr, results, posts, images, metas, j) ==
    IF j > Len(results) THEN rr
    ELSE CollectBatch(
           IF results[j] # None /\ Fate(posts[j]) = "collect"
           THEN Push(rr, InferResult(results[j][1], posts[j].annotate = "ok",
                                     metas[j]))
           ELSE rr,
           results, posts, images, metas, j + 1)

\* History: the failures met by the frames of a batch. A frame for which
\* the inference gave no result is a failure of the inference.
BatchFailures(results, posts, metas) ==
    UNION {FrameFailures(metas[j].frame_idx,
                         j > Len(results) \/ results[j] = None,
                         IF j > Len(results) THEN NoPost ELSE posts[j])
           : j \in 1..Len(metas)}

\* The saves of the loop over batch_results, from result j on.
RECURSIVE SaveBatch(_, _, _, _)
SaveBatch(d, posts, metas, j) ==
    IF j > Len(posts) THEN d
    ELSE SaveBatch(SaveTo(d, metas[j], posts[j].save), posts, metas, j + 1)

RECURSIVE SaveOpsBatch(_, _, _, _)
SaveOpsBatch(ops, posts, metas, j) ==
    IF j > Len(posts) THEN ops
    ELSE SaveOpsBatch(SaveOp(ops, metas[j], "caller", posts[j].save),
                      posts, metas, j + 1)

\* One iteration of the for loop of batch_sequential_infer, next() included.
batch_sequential_infer_step ==
    /\ pc = "run" /\ infer_fn = "BatchSequential"
    /\ \E r \in BatchSourceLoader_next(loader) :
          /\ Advance(r)
          /\ IF r.item = None
             THEN /\ pc' = "done"
                  /\ UNCHANGED <<engineVars, return_results, pb, failures,
                                 fsVars>>
             ELSE LET images == r.item[1].images
                      metas == r.item[1].metas
                  IN \E inf \in InferBatch(Len(yielded), images, metas, infer_failed) :
                     \E posts \in [1..Len(inf.results) -> PostOutcomes \cup {NoPost}] :
                       /\ \A j \in 1..Len(inf.results) :
                             IF inf.results[j] # None
                             THEN posts[j] \in PostOutcomes /\ PostPossible(posts[j])
                             ELSE posts[j] = NoPost
                       /\ pc' = pc
                       /\ infer_failed' = inf.infer_failed
                       /\ calls' = calls \o inf.calls
                       /\ failures' = failures
                                       \cup BatchFailures(inf.results, posts, metas)
                       /\ dir' = SaveBatch(dir, posts, metas, 1)
                       /\ fs_ops' = SaveOpsBatch(fs_ops, posts, metas, 1)
                       /\ return_results' =
                            CollectBatch(return_results, inf.results, posts,
                                         images, metas, 1)
                       /\ pb' = pb + Cardinality(
                                   {j \in 1..Len(inf.results) :
                                      /\ inf.results[j] # None
                                      /\ Fate(posts[j]) = "collect"})
    /\ UNCHANGED <<args, earlier, send_failed, infer_fn, pipeVars>>

\* ------------------------------------------------- the pipeline workers

\* mpsc::sync_channel(channel_capacity)
Capacity == unwrap_or(args.channel_capacity, DefaultCapacity)

\* Receiver::recv takes the item at the back of the queue.
Recv_newest(ch) == [item |-> ch[Len(ch)], rest |-> SubSeq(ch, 1, Len(ch) - 1)]

\* Receiver::recv on a non-empty channel: the oldest item.
Recv(ch) == [item |-> Head(ch), rest |-> Tail(ch)]

Running(w) == pc = "run" /\ worker[w].pc \in {"recv", "send"}

\* A Sender that outlives the closure that used it: the channel of a
\* worker that returned is never seen closed.
Stopped_sender_kept(w) == worker[w].pc = "panicked"

\* The worker's closure has returned or unwound: its Sender and Receiver
\* are dropped.
Stopped(w) == worker[w].pc \in {"done", "panicked"}

\* A sync_channel with no bound on its buffer.
HasRoom_always(ch) == TRUE

\* SyncSender::send returns at once while the buffer holds fewer than
\* channel_capacity items and blocks otherwise.
HasRoom(ch) == Len(ch) < Capacity

SetWorker(w, p, hold) == worker' = [worker EXCEPT ![w] = [pc |-> p, hold |-> hold]]

\* SyncSender::try_send in the place of send: an item sent to a full
\* channel is dropped instead of waited for.
Send_try(w, ch, receiver, after_error) ==
    /\ pc = "run" /\ worker[w].pc = "send"
    /\ IF Stopped(receiver)
       THEN /\ ch' = ch
            /\ send_failed' = send_failed \cup {w}
            /\ SetWorker(w, after_error, << >>)
       ELSE /\ send_failed' = send_failed
            /\ ch' = IF HasRoom(ch) THEN Append(ch, Head(worker[w].hold)) ELSE ch
            /\ SetWorker(w, IF Tail(worker[w].hold) = << >> THEN "recv" ELSE "send",
                         Tail(worker[w].hold))

\* A blocked send completes once the channel has room; when the receiving
\* worker is gone the send fails. after_error is the worker's position
\* after a failed send.
Send(w, ch, receiver, after_error) ==
    /\ pc = "run" /\ worker[w].pc = "send"
    /\ IF Stopped(receiver)
       THEN /\ ch' = ch
            /\ send_failed' = send_failed \cup {w}
            /\ SetWorker(w, after_error, << >>)
       ELSE /\ HasRoom(ch)
            /\ send_failed' = send_failed
            /\ ch' = Append(ch, Head(worker[w].hold))
            /\ SetWorker(w, IF Tail(worker[w].hold) = << >> THEN "recv" ELSE "send",
                         Tail(worker[w].hold))

\* Stage 1 of both pipelines: one next() of the loader; the batched
\* pipeline sends the batch index of loader.enumerate() with the batch.
load_next ==
    /\ pc = "run" /\ worker["load"].pc = "recv"
    /\ \E r \in (IF loader.type = "SourceLoader" THEN SourceLoader_next(loader)
                 ELSE BatchSourceLoader_next(loader)) :
          /\ Advance(r)
          /\ IF r.item = None
             THEN SetWorker("load", "done", << >>)
             ELSE SetWorker("load", "send",
                     <<IF loader.type = "SourceLoader" THEN r.item[1]
                       ELSE [batch_idx |-> Len(yielded),
                             images |-> r.item[1].images,
                             metas |-> r.item[1].metas]>>)
    /\ UNCHANGED <<args, earlier, send_failed, fsVars, pc, infer_fn, engineVars, load_ch, infer_ch,
                   annotate_ch, save_ch, outVars>>

load_send ==
    /\ Send("load", load_ch, "infer", "done")
    /\ UNCHANGED <<args, earlier, fsVars, pc, infer_fn, loaderVars, engineVars, infer_ch,
                   annotate_ch, save_ch, outVars>>

\* Stage 2 of channel_pipeline_infer: recv, predict_image.
infer_recv ==
    /\ pc = "run" /\ infer_fn = "ChannelPipeline" /\ worker["infer"].pc = "recv"
    /\ IF load_ch # << >>
       THEN LET got == Recv(load_ch)
                image == got.item.image
                meta == got.item.meta
            IN /\ load_ch' = got.rest
               /\ \E out \in PredictImageOutcomes :
                     /\ calls' = Append(calls,
                                   Call("predict_image", meta.frame_idx, out, 1))
                     /\ failures' = failures
                          \cup FrameFailures(meta.frame_idx, out # "ok", NoPost)
                     /\ IF ResultOf(image, out) # None
                        THEN SetWorker("infer", "send",
                                <<[image |-> image,
                                   result |-> ResultOf(image, out)[1],
                                   meta |-> meta]>>)
                        ELSE worker' = worker
       ELSE /\ Stopped("load")
            /\ SetWorker("infer", "done", << >>)
            /\ UNCHANGED <<load_ch, calls, failures>>
    /\ UNCHANGED <<args, earlier, send_failed, fsVars, pc, infer_fn, loaderVars, infer_failed, infer_ch,
                   annotate_ch, save_ch, return_results, pb>>

\* The frames of a batch with a present result, zipped in input order.
RECURSIVE ZipPresent(_, _, _, _)
ZipPresent(images, results, metas, j) ==
    IF j > Len(images) \/ j > Len(results) \/ j > Len(metas) THEN << >>
    ELSE (IF results[j] # None
          THEN <<[image |-> images[j], result |-> results[j][1],
                  meta |-> metas[j]]>>
          ELSE << >>)
         \o ZipPresent(images, results, metas, j + 1)

\* Stage 2 of batch_channel_pipeline_infer: recv, predict_batch or fallback.
batch_infer_recv ==
    /\ pc = "run" /\ infer_fn = "BatchChannelPipeline"
    /\ worker["infer"].pc = "recv"
    /\ IF load_ch # << >>
       THEN LET got == Recv(load_ch)
                images == got.item.images
                metas == got.item.metas
            IN /\ load_ch' = got.rest
               /\ \E inf \in InferBatch(got.item.batch_idx, images, metas,
                                        infer_failed) :
                     LET present == ZipPresent(images, inf.results, metas, 1)
                     IN /\ infer_failed' = inf.infer_failed
                        /\ calls' = calls \o inf.calls
                        /\ failures' = failures \cup
                              BatchFailures(inf.results,
                                            [j \in 1..Len(inf.results) |-> NoPost],
                                            metas)
                        /\ IF present = << >> THEN worker' = worker
                           ELSE SetWorker("infer", "send", present)
       ELSE /\ Stopped("load")
            /\ SetWorker("infer", "done", << >>)
            /\ UNCHANGED <<load_ch, engineVars, failures>>
    /\ UNCHANGED <<args, earlier, send_failed, fsVars, pc, infer_fn, loaderVars, infer_ch, annotate_ch,
                   save_ch, return_results, pb>>

\* A failed send ends the worker of channel_pipeline_infer; in
\* batch_channel_pipeline_infer it only leaves the loop over the batch.
infer_send ==
    /\ Send("infer", infer_ch, "annotate",
            IF infer_fn = "BatchChannelPipeline" THEN "recv" ELSE "done")
    /\ UNCHANGED <<args, earlier, fsVars, pc, infer_fn, loaderVars, engineVars, load_ch,
                   annotate_ch, save_ch, outVars>>

\* annotate_image handed the model, running an inference of its own.
annotate_image_calls_engine(meta) ==
    <<Call("predict_image", meta.frame_idx, "ok", 1)>>

\* The engine calls of the annotate stage: annotate_image takes the image,
\* the results and the config, and the model is moved into the closure of
\* the infer stage, so there are none.
annotate_image_calls(meta) == << >>

\* Stage 3: recv, annotate_image when annotation is on.
annotate_recv ==
    /\ pc = "run" /\ worker["annotate"].pc = "recv"
    /\ IF infer_ch # << >>
       THEN LET got == Recv(infer_ch)
            IN /\ infer_ch' = got.rest
               /\ calls' = calls \o annotate_image_calls(got.item.meta)
               /\ \E a \in AnnotateOutcomes :
                     /\ failures' = failures
                          \cup FrameFailures(got.item.meta.frame_idx, FALSE,
                                             [annotate |-> a, save |-> "none"])
                     /\ IF annotate_passes(a)
                        THEN SetWorker("annotate", "send",
                                <<[annotated |-> a = "ok",
                                   result |-> got.item.result,
                                   meta |-> got.item.meta]>>)
                        ELSE worker' = worker
       ELSE /\ Stopped("infer")
            /\ SetWorker("annotate", "done", << >>)
            /\ UNCHANGED <<infer_ch, failures, calls>>
    /\ UNCHANGED <<args, earlier, send_failed, fsVars, pc, infer_fn, loaderVars, infer_failed, load_ch,
                   annotate_ch, save_ch, return_results, pb>>

annotate_send ==
    /\ Send("annotate", annotate_ch, "save", "done")
    /\ UNCHANGED <<args, earlier, fsVars, pc, infer_fn, loaderVars, engineVars, load_ch,
                   infer_ch, save_ch, outVars>>

\* Stage 4: recv, save the annotated image when there is one and a save_dir.
save_recv ==
    /\ pc = "run" /\ worker["save"].pc = "recv"
    /\ IF annotate_ch # << >>
       THEN LET got == Recv(annotate_ch)
            IN /\ annotate_ch' = got.rest
               /\ \E sv \in SaveOutcomes(got.item.annotated) :
                     /\ failures' = failures
                          \cup FrameFailures(got.item.meta.frame_idx, FALSE,
                                             [annotate |-> "none", save |-> sv])
                     /\ dir' = SaveTo(dir, got.item.meta, sv)
                     /\ fs_ops' = SaveOp(fs_ops, got.item.meta, "save", sv)
                     /\ IF save_passes(sv)
                        THEN SetWorker("save", "send", <<got.item>>)
                        ELSE worker' = worker
       ELSE /\ Stopped("annotate")
            /\ SetWorker("save", "done", << >>)
            /\ UNCHANGED <<annotate_ch, failures, fsVars>>
    /\ UNCHANGED <<args, earlier, send_failed, pc, infer_fn, loaderVars, engineVars, load_ch,
                   infer_ch, save_ch, return_results, pb>>

save_send ==
    /\ Send("save", save_ch, "collect", "done")
    /\ UNCHANGED <<args, earlier, fsVars, pc, infer_fn, loaderVars, engineVars, load_ch,
                   infer_ch, annotate_ch, outVars>>

\* Stage 5: recv, push to return_results when retained, pb.inc(1).
collect_recv ==
    /\ pc = "run" /\ worker["collect"].pc = "recv"
    /\ IF save_ch # << >>
       THEN LET got == Recv(save_ch)
            IN /\ save_ch' = got.rest
               /\ return_results' =
                     Push(return_results,
                          InferResult(got.item.result, got.item.annotated,
                                      got.item.meta))
               /\ pb' = pb + 1
               /\ worker' = worker
       ELSE /\ Stopped("save")
            /\ SetWorker("collect", "done", << >>)
            /\ UNCHANGED <<save_ch, return_results, pb>>
    /\ UNCHANGED <<args, earlier, send_failed, fsVars, pc, infer_fn, loaderVars, engineVars, load_ch,
                   infer_ch, annotate_ch, failures>>

\* The scope is left once the handle of the load worker is joined.
AllJoined_load_only == Stopped("load")

\* The five joins, and the implicit join of thread::scope: every worker
\* has finished.
AllJoined == \A w \in Stages : Stopped(w)

\* The Err of a join is dropped instead of unwrapped.
AnyPanicked_ignored == FALSE

\* A join that returns Err makes the calling thread panic.
AnyPanicked == \E w \in Stages : worker[w].pc = "panicked"

\* handle.join().expect(..) five times at the end of thread::scope, and
\* the return of the strategy function.
join ==
    /\ pc = "run" /\ infer_fn \in {"ChannelPipeline", "BatchChannelPipeline"}
    /\ AllJoined
    /\ pc' = IF AnyPanicked THEN "panic" ELSE "done"
    /\ UNCHANGED <<args, earlier, send_failed, fsVars, infer_fn, loaderVars, engineVars, pipeVars, outVars>>

\* A stage worker panics, for instance in v.remove(0) on an empty result
\* of predict_batch: the thread unwinds and drops what it holds.
worker_panic ==
    /\ Cardinality({w \in Stages : worker[w].pc = "panicked"}) < MaxPanics
    /\ \E w \in Stages :
          /\ Running(w)
          /\ SetWorker(w, "panicked", << >>)
    /\ UNCHANGED <<args, earlier, send_failed, fsVars, pc, infer_fn, loaderVars, engineVars, load_ch,
                   infer_ch, annotate_ch, save_ch, outVars>>

Next ==
    \/ run_prediction
    \/ run_online_prediction
    \/ prepare_save_dir
    \/ sequential_infer_begin
    \/ batch_sequential_infer_begin
    \/ channel_pipeline_infer_begin
    \/ batch_channel_pipeline_infer_begin
    \/ sequential_infer_step
    \/ batch_sequential_infer_step
    \/ load_next
    \/ load_send
    \/ infer_recv
    \/ batch_infer_recv
    \/ infer_send
    \/ annotate_recv
    \/ annotate_send
    \/ save_recv
    \/ save_send
    \/ collect_recv
    \/ join

Spec == Init /\ [][Next]_vars

\* ------------------------------------- the pipelines with worker panics

\* The invocations that run a pipeline strategy on a list of image paths,
\* with result retention on, and with annotation and saving both on or
\* both off.
InitPipeline ==
    /\ Init
    /\ ReadsCapacity(args)
    /\ args.source.kind = "ImagePathVec"
    /\ args.source.items = FilterImages(args.source.items)
    /\ args.return_result
    /\ args.annotate <=> args.save_dir # None
    /\ dir = NoDir

NextPipeline ==
    \/ run_prediction
    \/ run_online_prediction
    \/ prepare_save_dir
    \/ channel_pipeline_infer_begin
    \/ batch_channel_pipeline_infer_begin
    \/ load_next
    \/ load_send
    \/ infer_recv
    \/ batch_infer_recv
    \/ infer_send
    \/ annotate_recv
    \/ annotate_send
    \/ save_recv
    \/ save_send
    \/ collect_recv
    \/ worker_panic
    \/ join

\* The calling thread and each spawned thread are scheduled again and
\* again; a panic is not bound to happen.
Fairness ==
    /\ WF_vars(run_prediction \/ run_online_prediction \/ prepare_save_dir
               \/ channel_pipeline_infer_begin
               \/ batch_channel_pipeline_infer_begin \/ join)
    /\ WF_vars(load_next \/ load_send)
    /\ WF_vars(infer_recv \/ batch_infer_recv \/ infer_send)
    /\ WF_vars(annotate_recv \/ annotate_send)
    /\ WF_vars(save_recv \/ save_send)
    /\ WF_vars(collect_recv)

SpecPipeline == InitPipeline /\ [][NextPipeline]_vars /\ Fairness

\* ------------------------- predict_batch with an empty per-image list

\* predict_batch returns Ok(vec) in which the list of some image is
\* empty: v.remove(0) panics on it, in batch_sequential_infer on the
\* calling thread.
batch_sequential_infer_panic ==
    /\ pc = "run" /\ infer_fn = "BatchSequential" /\ ~infer_failed
    /\ \E r \in BatchSourceLoader_next(loader) :
          /\ r.item # None
          /\ r.item[1].images # << >>
          /\ Advance(r)
          /\ calls' = Append(calls,
                        Call("predict_batch", Len(yielded), "empty",
                             Len(r.item[1].images)))
    /\ pc' = "panic"
    /\ UNCHANGED <<args, earlier, send_failed, fsVars, infer_fn, infer_failed, pipeVars, outVars>>

\* The same in batch_channel_pipeline_infer: the infer worker panics.
batch_infer_panic ==
    /\ pc = "run" /\ infer_fn = "BatchChannelPipeline"
    /\ worker["infer"].pc = "recv" /\ ~infer_failed
    /\ load_ch # << >>
    /\ LET got == Recv(load_ch)
       IN /\ got.item.images # << >>
          /\ load_ch' = got.rest
          /\ calls' = Append(calls,
                        Call("predict_batch", got.item.batch_idx, "empty",
                             Len(got.item.images)))
    /\ SetWorker("infer", "panicked", << >>)
    /\ UNCHANGED <<args, earlier, send_failed, fsVars, pc, infer_fn, loaderVars, infer_failed, infer_ch,
                   annotate_ch, save_ch, outVars>>

\* ------------------------------------- the batched strategies on longer lists

\* The invocations of the two batched strategies on a list of up to
\* MaxItems image paths with stems of their own, without annotation or
\* saving and with result retention on.
BatchedArgs ==
    {a \in [online : {FALSE},
            source : {[kind |-> "ImagePathVec", exists |-> TRUE,
                       readable |-> TRUE,
                       items |-> ItemsOf([i \in 1..n |-> "jpg"])] :
                         n \in 0..MaxItems},
            infer_fn : {"BatchSequential", "BatchChannelPipeline"},
            batch : {Some(n) : n \in 1..MaxBatch},
            channel_capacity : {Some(n) : n \in (1..MaxCap) \cup {DefaultCapacity}},
            annotate : {FALSE},
            save_dir : {None},
            return_result : {TRUE}] :
        IF ReadsCapacity(a) THEN a.channel_capacity[1] <= MaxCap
        ELSE a.channel_capacity = Some(DefaultCapacity)}

InitBatched ==
    /\ args \in BatchedArgs
    /\ dir = NoDir
    /\ pc = "start"
    /\ loader = NoLoader
    /\ yielded = << >>
    /\ decode_failed = {}
    /\ InitIdle

NextBatched ==
    \/ run_prediction
    \/ prepare_save_dir
    \/ batch_sequential_infer_begin
    \/ batch_channel_pipeline_infer_begin
    \/ batch_sequential_infer_step
    \/ load_next
    \/ load_send
    \/ batch_infer_recv
    \/ infer_send
    \/ annotate_recv
    \/ annotate_send
    \/ save_recv
    \/ save_send
    \/ collect_recv
    \/ batch_sequential_infer_panic
    \/ batch_infer_panic
    \/ join

SpecBatched == InitBatched /\ [][NextBatched]_vars

\* ------------------------------------------------- the TOML config file

\* What a config file holds: bytes that are not UTF-8, text that is not a
\* TOML document of the expected shape, or a document that sets infer_fn.
TomlContents ==
    {[utf8 |-> FALSE, valid |-> FALSE, infer_fn |-> "none"],
     [utf8 |-> TRUE, valid |-> FALSE, infer_fn |-> "none"]}
    \cup {[utf8 |-> TRUE, valid |-> TRUE, infer_fn |-> f] : f \in InferFns}

\* The paths given to parse_toml: nothing there, a directory or a file;
\* without extension or with the extension toml, TOML or txt; for a file,
\* whether it can be read and what it holds.
TomlPaths ==
    [kind : {"missing", "dir", "file"},
     ext : {None, Some("toml"), Some("TOML"), Some("txt")},
     readable : BOOLEAN,
     content : TomlContents]

\* Path::is_file
is_file(path) == path.kind = "file"

\* toml_path.extension().map_or(false, |ext| ext != "toml")
extension_is_not_toml(path) == path.ext # None /\ path.ext[1] # "toml"

\* Source::None, the default of PredictArgs.source.
SourceNone ==
    [kind |-> "None", exists |-> FALSE, readable |-> FALSE, items |-> << >>]

\* The PredictArgs of a parsed document: PredictArgs::default() with the
\* fields the document sets.
PredictArgsOf(content) ==
    [online |-> FALSE,
     source |-> SourceNone,
     infer_fn |-> content.infer_fn,
     batch |-> Some(DefaultBatch),
     channel_capacity |-> Some(DefaultCapacity),
     annotate |-> FALSE,
     save_dir |-> None,
     return_result |-> FALSE]

\* TomlConfig::from_toml followed by Into<PredictArgs>: the check of the
\* path, read_to_string, toml::from_str.
from_toml(path) ==
    IF ~is_file(path) \/ extension_is_not_toml(path)
    THEN [ok |-> FALSE, err |-> "Config"]
    ELSE IF ~path.readable \/ ~path.content.utf8
    THEN [ok |-> FALSE, err |-> "Io"]
    ELSE IF ~path.content.valid
    THEN [ok |-> FALSE, err |-> "TomlConfig"]
    ELSE [ok |-> TRUE, args |-> PredictArgsOf(path.content)]

\* parse_toml, as main calls it before run_prediction: args is the path
\* before the call and the PredictArgs after a successful one.
parse_toml ==
    /\ pc = "config"
    /\ LET r == from_toml(args)
       IN IF r.ok
          THEN /\ args' = r.args
               /\ pc' = "start"
          ELSE /\ args' = args
               /\ pc' = "toml_error"
    /\ UNCHANGED <<earlier, send_failed, infer_fn, loaderVars, engineVars, pipeVars, outVars,
                   fsVars>>

InitToml ==
    /\ args \in TomlPaths
    /\ pc = "config"
    /\ dir = NoDir
    /\ loader = NoLoader
    /\ yielded = << >>
    /\ decode_failed = {}
    /\ InitIdle

NextToml == parse_toml

SpecToml == InitToml /\ [][NextToml]_vars

\* --------------------------------------- one invocation after another

\* The caller invokes the strategy again with the same model and the same
\* arguments after an invocation returned Ok. What the locals of the
\* returned invocation held is left where it was.
invoke_again ==
    /\ pc = "done"
    /\ Len(earlier) < MaxInvocations - 1
    /\ earlier' = Append(earlier, infer_failed)
    /\ pc' = "start"
    /\ infer_fn' = "unset"
    /\ loader' = NoLoader
    /\ yielded' = << >>
    /\ decode_failed' = {}
    /\ calls' = << >>
    /\ load_ch' = << >> /\ infer_ch' = << >> /\ annotate_ch' = << >>
    /\ save_ch' = << >>
    /\ worker' = [w \in Stages |-> [pc |-> "unspawned", hold |-> << >>]]
    /\ return_results' = << >>
    /\ pb' = 0
    /\ failures' = {}
    /\ fs_ops' = << >>
    /\ send_failed' = {}
    /\ UNCHANGED <<args, infer_failed, dir>>

NextTwice ==
    \/ NextBatched
    \/ invoke_again

SpecTwice == InitBatched /\ [][NextTwice]_vars

\* ------------------------------------------------ claims on the loaders

RECURSIVE SumLen(_)
SumLen(batches) ==
    IF batches = << >> THEN 0 ELSE Len(Head(batches)) + SumLen(Tail(batches))

\* The frames yielded so far by a BatchSourceLoader, over all batches.
YieldedFrames == SumLen([b \in 1..Len(yielded) |-> yielded[b].images])

\* The frame references of the source that pass the extension filter.
ValidFrames == SourceFrames(args.source).frames

\* The real (non-padding) frame references a BatchSourceLoader holds.
RealFrameRefs(l) ==
    SumLen([b \in 1..Len(l.batches) |->
              SelectSeq(l.batches[b], LAMBDA fd : fd.tag # "None")])

IsBatchLoader == loader.type = "BatchSourceLoader"

IsSourceLoader == loader.type = "SourceLoader"

\* C4: for a non-empty batchable source and a batch size >= 1, a complete
\* iteration of BatchSourceLoader without decode failure yields as many
\* frames as total_frames() says, and no yielded image or meta is a
\* padding slot (a FrameData::None, or a frame index past the real frames).
C4_ChunkerYieldsTotalFrames ==
    (/\ IsBatchLoader
     /\ is_batch(args.source)
     /\ ValidFrames # << >>
     /\ args.batch # None /\ args.batch[1] >= 1)
    => /\ \A b \in 1..Len(yielded) :
            /\ Len(yielded[b].images) = Len(yielded[b].metas)
            /\ \A i \in 1..Len(yielded[b].images) :
                  /\ yielded[b].images[i] # FrameNone.id
                  /\ yielded[b].metas[i].frame_idx < Len(ValidFrames)
       /\ (pc = "done" /\ decode_failed = {})
            => YieldedFrames = total_frames(loader)

\* A complete iteration over a source whose last batch is padded.
C4_Witness ==
    /\ IsBatchLoader /\ pc = "done" /\ decode_failed = {}
    /\ args.source.kind = "ImagePathVec"
    /\ args.batch = Some(2)
    /\ Len(ValidFrames) = 3
    /\ YieldedFrames = 3
    /\ Len(yielded) = 2

\* C5: for every source variant and batch size, len() is the number of
\* batches the iteration yields and total_frames() is the number of real
\* frame references collected at construction.
C5_CountsExact ==
    IsBatchLoader
    => /\ total_frames(loader) = RealFrameRefs(loader)
       /\ pc = "done" => BatchSourceLoader_len(loader) = Len(yielded)

\* C6 as claimed: item i of the vectors yielded for batch b has frame_idx
\* b * batch_size + i, also when an earlier frame of the batch was skipped.
C6_FrameIdxByYieldedPosition ==
    IsBatchLoader
    => \A b \in 1..Len(yielded) : \A i \in 1..Len(yielded[b].metas) :
          yielded[b].metas[i].frame_idx = (b - 1) * loader.batch_size + (i - 1)

\* C6 amended: item i of the vectors yielded for batch b has frame_idx
\* b * batch_size + j, j being the slot the frame has in the batch as
\* chunked at construction: i plus the number of earlier frames of the
\* batch whose decode failed. So it is b * batch_size + i exactly when no
\* earlier frame of the batch failed to decode.
C6_FrameIdxBySlot ==
    IsBatchLoader
    => \A b \in 1..Len(yielded) : \A i \in 1..Len(yielded[b].metas) :
          LET base == (b - 1) * loader.batch_size
              idx == yielded[b].metas[i].frame_idx
              skipped == {f \in decode_failed : base <= f /\ f < idx}
          IN /\ idx = base + (i - 1) + Cardinality(skipped)
             /\ idx - base < Len(loader.batches[b])
             /\ loader.batches[b][idx - base + 1].id = yielded[b].images[i]

\* A second batch yielded after a first batch whose first frame failed to
\* decode, so that the frame yielded first has frame_idx 1.
C6_Witness ==
    /\ IsBatchLoader
    /\ Len(yielded) = 2
    /\ loader.batch_size = 2
    /\ Len(yielded[1].metas) = 1
    /\ yielded[1].metas[1].frame_idx = 1
    /\ 0 \in decode_failed
    /\ Len(yielded[2].metas) = 1
    /\ yielded[2].metas[1].frame_idx = 2

\* C7: SourceLoader.len() bounds the number of frames yielded; a complete
\* iteration yields exactly the frames whose decode did not fail, each
\* failure costing one frame, and goes on to the end of the source.
C7_LenBoundsYielded ==
    IsSourceLoader
    => /\ Len(yielded) <= SourceLoader_len(loader)
       /\ pc = "done" =>
            /\ Len(yielded) = SourceLoader_len(loader) - Cardinality(decode_failed)
            /\ {yielded[k].meta.frame_idx : k \in 1..Len(yielded)}
                 = (0..(loader.len - 1)) \ decode_failed
            /\ decode_failed = {} => Len(yielded) = SourceLoader_len(loader)

\* A complete iteration that yielded a frame after a failed decode.
C7_Witness ==
    /\ IsSourceLoader /\ pc = "done"
    /\ decode_failed = {0}
    /\ Len(yielded) = 2
    /\ yielded[1].meta.frame_idx = 1
    /\ SourceLoader_len(loader) = 3

\* ------------------------------------------- claims on the strategies

Batched == infer_fn \in {"BatchSequential", "BatchChannelPipeline"}

Pipelined == infer_fn \in {"ChannelPipeline", "BatchChannelPipeline"}

\* The frame indices next() has yielded.
YieldedIdx ==
    IF IsBatchLoader
    THEN UNION {{yielded[b].metas[i].frame_idx : i \in 1..Len(yielded[b].metas)}
                : b \in 1..Len(yielded)}
    ELSE {yielded[k].meta.frame_idx : k \in 1..Len(yielded)}

\* The frame indices that met a failure after their decode.
FailedIdx == {f[1] : f \in failures}

\* The retained list.
Retained == IF return_results = None THEN << >> ELSE return_results[1]

RetainedIdx == {Retained[k].meta.frame_idx : k \in 1..Len(Retained)}

\* The frame indices of the source, after the extension filter.
AllIdx == 0..(Len(ValidFrames) - 1)

BatchErrs ==
    {i \in 1..Len(calls) : calls[i].fn = "predict_batch" /\ calls[i].out = "err"}

\* C1, the state part: in a batched strategy no predict_batch call follows
\* a failed one, so at most one fails, and the flag is set exactly when
\* one has failed.
C1_NoBatchCallAfterFailure ==
    Batched
    => /\ \A i \in BatchErrs : \A j \in (i + 1)..Len(calls) :
             calls[j].fn = "predict_image"
       /\ Cardinality(BatchErrs) <= 1
       /\ infer_failed <=> BatchErrs # {}

\* C1: once predict_batch has failed in an invocation of a batched
\* strategy, every later batch is inferred by per-image calls only, and
\* infer_failed never goes from true back to false.
C1_StickyFallback ==
    /\ [] C1_NoBatchCallAfterFailure
    /\ [][infer_failed => infer_failed']_vars

\* The batched pipeline after the predict_batch of batch 0 failed and the
\* frame of batch 1 was inferred by predict_image.
C1_Witness ==
    /\ infer_fn = "BatchChannelPipeline"
    /\ infer_failed
    /\ Len(calls) = 3
    /\ calls[1] = Call("predict_batch", 0, "err", 0)
    /\ calls[2].fn = "predict_image" /\ calls[2].at = 0
    /\ calls[3].fn = "predict_image" /\ calls[3].at = 1

\* The frames of batch b as the loader yielded them.
BatchMetas(b) == yielded[b + 1].metas

\* C2: when predict_batch fails on a batch, each frame of that batch is
\* inferred by exactly one predict_image call, in input order, and a frame
\* whose call gives a result goes on to annotation, saving and
\* collection: it is retained unless its annotation or its save fails.
C2_FailedBatchInferredPerImage ==
    Batched
    => \A i \in BatchErrs :
          LET metas == BatchMetas(calls[i].at)
          IN /\ Len(calls) >= i + Len(metas)
             /\ \A j \in 1..Len(metas) :
                   LET c == calls[i + j]
                       idx == metas[j].frame_idx
                   IN /\ c.fn = "predict_image" /\ c.at = idx
                      /\ Cardinality({k \in 1..Len(calls) :
                            calls[k].fn = "predict_image" /\ calls[k].at = idx}) = 1
                      /\ c.out = "ok" => <<idx, "infer">> \notin failures
                      /\ (c.out = "ok" /\ pc = "done" /\ return_results # None)
                           => \/ idx \in RetainedIdx
                              \/ <<idx, "annotate">> \in failures
                              \/ <<idx, "save">> \in failures

\* A finished invocation whose first batch, of two frames, failed in
\* predict_batch: the first frame failed again per image, the second was
\* inferred and retained.
C2_Witness ==
    /\ Batched /\ pc = "done" /\ return_results # None
    /\ Len(calls) = 3
    /\ calls[1] = Call("predict_batch", 0, "err", 0)
    /\ calls[2] = Call("predict_image", 0, "err", 1)
    /\ calls[3] = Call("predict_image", 1, "ok", 1)
    /\ RetainedIdx = {1}

\* C3: in a pipeline strategy with result retention on, the retained list
\* has strictly increasing frame_idx in every state, and when the
\* invocation is done the indices missing from it are exactly those of
\* the frames that met a decode, inference, annotation or save failure.
C3_RetainedInFrameOrder ==
    (Pipelined /\ return_results # None)
    => /\ \A k \in 1..(Len(Retained) - 1) :
             Retained[k].meta.frame_idx < Retained[k + 1].meta.frame_idx
       /\ pc = "done" =>
             AllIdx \ RetainedIdx = decode_failed \cup FailedIdx

\* A finished pipeline that retained both frames of its source.
C3_Witness ==
    /\ Pipelined /\ pc = "done"
    /\ Len(Retained) = 2
    /\ Retained[1].meta.frame_idx = 0
    /\ Retained[2].meta.frame_idx = 1

\* The strategy the loader and the workers in use belong to.
StrategyRun ==
    CASE loader.type = "SourceLoader" /\ worker["load"].pc = "unspawned"
           -> "Sequential"
      [] loader.type = "BatchSourceLoader" /\ worker["load"].pc = "unspawned"
           -> "BatchSequential"
      [] loader.type = "SourceLoader" /\ worker["load"].pc # "unspawned"
           -> "ChannelPipeline"
      [] loader.type = "BatchSourceLoader" /\ worker["load"].pc # "unspawned"
           -> "BatchChannelPipeline"
      [] OTHER -> "none"

\* C8, the state part: once selected, the strategy is Sequential for a
\* single-image source and the configured one for any other source, and
\* it is the strategy that runs.
C8_SelectedStrategy ==
    pc \in {"selected", "run", "done", "error"}
    => /\ infer_fn = IF args.source.kind \in {"ImagePath", "Image"}
                     THEN "Sequential" ELSE args.infer_fn
       /\ pc \in {"run", "done"} => StrategyRun = infer_fn

\* C8: the strategy is chosen once per invocation, Sequential for a
\* single-image source whatever args.infer_fn says and the configured
\* strategy otherwise, and it never changes during the invocation.
C8_StrategyChosenOnce ==
    /\ [] C8_SelectedStrategy
    /\ [][pc # "start" => infer_fn' = infer_fn]_vars

\* A single in-memory image, configured for the batched pipeline, processed
\* to the end by the sequential strategy.
C8_Witness ==
    /\ args.source.kind = "Image"
    /\ args.infer_fn = "BatchChannelPipeline"
    /\ pc = "done"
    /\ infer_fn = "Sequential"
    /\ StrategyRun = "Sequential"
    /\ Len(calls) = 1

\* C9: in each of the four strategies the final value of the progress
\* counter is the number of frames that were decoded, inferred with a
\* result, annotated and saved without failure.
C9_ProgressCountsProcessed ==
    pc = "done" => pb = Cardinality(YieldedIdx \ FailedIdx)

\* C9 for the three strategies that advance the counter after collecting.
C9_ExceptSequential ==
    (pc = "done" /\ infer_fn # "Sequential")
    => pb = Cardinality(YieldedIdx \ FailedIdx)

SourceError == ~SourceFrames(args.source).ok

\* Clearing or creating the save directory failed.
SaveDirError ==
    \E i \in 1..Len(fs_ops) :
       /\ fs_ops[i].op \in {"remove_dir_all", "create_dir_all"}
       /\ fs_ops[i].out = "err"

\* Every frame of the source met a decode, inference, annotation or save
\* failure.
EveryFrameFailed == AllIdx \subseteq (decode_failed \cup FailedIdx)

UnreadableSource ==
    /\ args.source.kind = "Directory"
    /\ args.source.exists /\ ~args.source.readable

\* The source is readable and holds no entry with an image extension.
ZeroValidImages ==
    /\ args.source.kind \in {"Directory", "ImagePathVec", "ImagePath"}
    /\ args.source.exists /\ args.source.readable
    /\ FilterImages(args.source.items) = << >>

\* The invocation treats the source as an empty frame sequence.
EmptyNotFatal ==
    /\ pc # "error"
    /\ loader # NoLoader => loader.len = 0
    /\ pc = "done" => (yielded = << >> /\ calls = << >> /\ pb = 0
                       /\ Retained = << >>)

\* C12: a source that resolves to an unreadable directory or to zero valid
\* images gives a loader of length 0 and an invocation that completes with
\* no frame processed, never an error.
C12_EmptySourceNotFatal ==
    (UnreadableSource \/ ZeroValidImages) => EmptyNotFatal

\* C12 for the sources with zero valid images alone.
C12_ZeroValidImagesNotFatal ==
    ZeroValidImages => EmptyNotFatal

Outbound(w) ==
    CASE w = "load" -> load_ch
      [] w = "infer" -> infer_ch
      [] w = "annotate" -> annotate_ch
      [] w = "save" -> save_ch

Receiver(w) ==
    CASE w = "load" -> "infer"
      [] w = "infer" -> "annotate"
      [] w = "annotate" -> "save"
      [] w = "save" -> "collect"

Senders == {"load", "infer", "annotate", "save"}

\* The stage has an item in hand, its outbound channel is full and the
\* receiving stage is still there: its send blocks.
Blocked(w) ==
    /\ worker[w].pc = "send"
    /\ Len(Outbound(w)) >= unwrap_or(args.channel_capacity, DefaultCapacity)
    /\ ~Stopped(Receiver(w))

\* The step takes an item from the inbound side of the stage.
Pulls(w) ==
    CASE w = "load" -> loader' # loader
      [] w = "infer" -> Len(load_ch') < Len(load_ch)
      [] w = "annotate" -> Len(infer_ch') < Len(infer_ch)
      [] w = "save" -> Len(annotate_ch') < Len(annotate_ch)

\* C14, the state part: no channel of channel_pipeline_infer holds more
\* than channel_capacity frames, and a stage has at most one frame in hand.
C14_ChannelsWithinCapacity ==
    infer_fn = "ChannelPipeline"
    => /\ \A w \in Senders :
             Len(Outbound(w)) <= unwrap_or(args.channel_capacity, DefaultCapacity)
       /\ \A w \in Stages : Len(worker[w].hold) <= 1

\* C14: in channel_pipeline_infer each of the four channels holds at most
\* channel_capacity frames in every state, and a stage whose outbound
\* channel is full stays where it is and pulls no further item in any step
\* taken while the channel is full, unless it panics.
C14_Backpressure ==
    /\ [] C14_ChannelsWithinCapacity
    /\ [][\A w \in Senders :
            (infer_fn = "ChannelPipeline" /\ Blocked(w))
            => /\ ~Pulls(w)
               /\ worker'[w] = worker[w] \/ worker'[w].pc = "panicked"]_vars

\* The infer stage of channel_pipeline_infer blocked with a result in hand
\* on a full channel, while the load stage is still running.
C14_Witness ==
    /\ infer_fn = "ChannelPipeline"
    /\ Blocked("infer")
    /\ Len(infer_ch) = unwrap_or(args.channel_capacity, DefaultCapacity)
    /\ worker["load"].pc = "recv"

\* The frames in a channel of batches.
FramesIn(ch) == SumLen([i \in 1..Len(ch) |-> ch[i].images])

\* C15: in batch_channel_pipeline_infer the number of frames in flight
\* between two adjacent stages, between Load and Infer included, is at
\* most channel_capacity in every state.
C15_FramesWithinCapacity ==
    (infer_fn = "BatchChannelPipeline" /\ pc = "run")
    => /\ FramesIn(load_ch) <= unwrap_or(args.channel_capacity, DefaultCapacity)
       /\ \A w \in Senders \ {"load"} :
             Len(Outbound(w)) <= unwrap_or(args.channel_capacity, DefaultCapacity)

\* C15 with the channel from Load to Infer counted in batches.
C15_BatchesWithinCapacity ==
    (infer_fn = "BatchChannelPipeline" /\ pc = "run")
    => \A w \in Senders :
          Len(Outbound(w)) <= unwrap_or(args.channel_capacity, DefaultCapacity)

\* ----------------------------------------- claims on the end of a pipeline

\* A worker that has stopped has seen its inbound channel closed and
\* empty: the stage before it has stopped and left nothing in the channel.
ClosureInOrder ==
    \A w \in Senders :
       worker[Receiver(w)].pc = "done"
       => (worker[w].pc = "done" /\ Outbound(w) = << >>)

\* C16: under fair scheduling of the calling thread and of the five
\* workers, a pipeline invocation in which no worker panics reaches its
\* return for every source and capacity tried, and as long as no worker has
\* panicked a worker has stopped only after the stage before it has
\* stopped and its inbound channel is drained.
C16_PipelineTerminates ==
    /\ (Pipelined /\ pc = "run") ~> (pc = "done" \/ AnyPanicked)
    /\ [](~AnyPanicked => ClosureInOrder)

\* channel_pipeline_infer returned after two frames went through channels
\* of capacity 1 and every worker stopped.
C16_Witness ==
    /\ infer_fn = "ChannelPipeline" /\ pc = "done"
    /\ args.channel_capacity = Some(1)
    /\ pb = 2
    /\ \A w \in Stages : worker[w].pc = "done"

\* The strategy function has returned or unwound to its caller.
Returned == pc \in {"done", "panic", "error"}

\* C17, the state part: when a pipeline strategy has returned, none of its
\* five workers is running.
C17_NoWorkerRunsAfterReturn ==
    (Pipelined /\ Returned)
    => \A w \in Stages : worker[w].pc \in {"unspawned", "done", "panicked"}

\* C17: a pipeline invocation returns only after its five workers have
\* terminated, and after the return no worker moves, no result is
\* appended, the progress bar and the engine are left alone and no file is
\* written.
C17_ReturnsAfterWorkers ==
    /\ [] C17_NoWorkerRunsAfterReturn
    /\ [][(Pipelined /\ Returned)
          => UNCHANGED <<worker, return_results, pb, calls, dir, fs_ops>>]_vars

\* batch_channel_pipeline_infer returned with two retained results, a
\* saved file and its five workers finished.
C17_Witness ==
    /\ infer_fn = "BatchChannelPipeline" /\ pc = "done"
    /\ Len(Retained) = 2
    /\ dir.files # {}
    /\ \A w \in Stages : worker[w].pc = "done"

\* Some stage worker of the invocation has panicked.
SomeWorkerPanicked == \E w \in Stages : worker[w].pc = "panicked"

\* C18: once a stage worker of a pipeline has panicked the invocation
\* never returns Ok, and under fair scheduling it does end, as a panic of
\* the calling thread, with every other worker terminated.
C18_PanicIsFatalAndEnds ==
    /\ [](SomeWorkerPanicked => pc # "done")
    /\ SomeWorkerPanicked
         ~> (pc = "panic"
             /\ \A w \in Stages : worker[w].pc \in {"done", "panicked"})

\* channel_pipeline_infer ended in a panic after its annotate worker
\* panicked: the infer worker stopped on a failed send and left a frame
\* of the load worker in the first channel.
C18_Witness ==
    /\ infer_fn = "ChannelPipeline" /\ pc = "panic"
    /\ worker["annotate"].pc = "panicked"
    /\ worker["infer"].pc = "done"
    /\ load_ch # << >>

\* ------------------------------------------------- claims on the engine

\* The step is one of the infer worker taking an item from its inbound
\* channel: no other worker moves and nothing but the engine, the first
\* channel and the infer worker's own state changes hands.
InferWorkerStep ==
    /\ worker["infer"].pc = "recv"
    /\ load_ch # << >> /\ load_ch' = Tail(load_ch)
    /\ \A w \in Stages \ {"infer"} : worker'[w] = worker[w]
    /\ UNCHANGED <<loader, infer_ch, annotate_ch, save_ch, return_results, pb,
                   dir, fs_ops>>

\* C19: in a pipeline invocation every call of the inference engine is
\* made in a step of the infer worker: the calling thread and the load,
\* annotate, save and collect workers never call it, so the calls are made
\* one after the other by a single thread.
C19_EngineCalledByInferWorkerOnly ==
    [][(Pipelined /\ calls' # calls) => InferWorkerStep]_vars

\* channel_pipeline_infer after two engine calls, with the annotate worker
\* holding the second frame and the first frame already collected.
C19_Witness ==
    /\ infer_fn = "ChannelPipeline" /\ pc = "run"
    /\ Len(calls) = 2
    /\ worker["annotate"].pc = "send"
    /\ pb = 1

\* ------------------------------------------ claims on the save directory

\* The positions in fs_ops of the operations named op.
OpsAt(op) == {i \in 1..Len(fs_ops) : fs_ops[i].op = op}

\* The loader is built, a worker is spawned, a frame is yielded or a file
\* is written.
Started ==
    \/ loader # NoLoader
    \/ yielded # << >>
    \/ \E w \in Stages : worker[w].pc # "unspawned"
    \/ OpsAt("save") # {}

\* C20, the state part.
C20_DirPrepared ==
    /\ args.save_dir = None => fs_ops = << >>
    /\ \A i \in OpsAt("remove_dir_all") \cup OpsAt("create_dir_all") :
          fs_ops[i].by = "caller"
    /\ Cardinality(OpsAt("remove_dir_all")) <= 1
    /\ Cardinality(OpsAt("create_dir_all")) <= 1
    /\ \A i \in OpsAt("remove_dir_all"), j \in OpsAt("create_dir_all") : i < j
    /\ (args.save_dir # None /\ Started)
         => /\ \E j \in OpsAt("create_dir_all") :
                  /\ fs_ops[j].out = "ok"
                  /\ \A i \in OpsAt("save") : j < i
            /\ dir.exists
            /\ StaleFile \notin dir.files

\* C20: a configured save directory is cleared, when it is there, and
\* created exactly once per invocation, by the calling thread, before the
\* loader is built, a worker is spawned, a frame is loaded or a file is
\* written; afterwards no step, of a worker or of the caller, clears or
\* creates it again.
C20_SaveDirPreparedOnceByCaller ==
    /\ [] C20_DirPrepared
    /\ [][Started
          => /\ OpsAt("remove_dir_all")' = OpsAt("remove_dir_all")
             /\ OpsAt("create_dir_all")' = OpsAt("create_dir_all")]_vars

\* A finished pipeline whose save directory was there before: it was
\* cleared and created by the caller, then the save worker wrote a file.
C20_Witness ==
    /\ Pipelined /\ pc = "done"
    /\ Len(fs_ops) >= 3
    /\ fs_ops[1] = FsOp("remove_dir_all", "caller", "ok")
    /\ fs_ops[2] = FsOp("create_dir_all", "caller", "ok")
    /\ fs_ops[3].op = "save" /\ fs_ops[3].by = "save" /\ fs_ops[3].out = "ok"
    /\ dir.files = {frame_stem(Retained[1].meta)}

\* ------------------------------------------- claims on the persisted files

\* The frame indices whose annotated image was written without error.
PersistedIdx ==
    {fs_ops[i].at : i \in {j \in OpsAt("save") : fs_ops[j].out = "ok"}}

\* The invocation has completed with annotation on and a save directory.
SavedRunDone == pc = "done" /\ args.annotate /\ args.save_dir # None

\* No two paths of the source have the same file stem.
DistinctStems ==
    \A i, j \in 1..Len(args.source.items) :
       args.source.items[i].stem = args.source.items[j].stem => i = j

\* C21: after a completed invocation with annotation on and a save
\* directory, the directory holds one file per frame that passed the save
\* step, so as many files as frames were collected, for every source, the
\* path lists whose entries share a file stem included.
C21_OneFilePerPersistedFrame ==
    SavedRunDone
    => /\ Cardinality(dir.files) = Cardinality(PersistedIdx)
       /\ return_results # None => Cardinality(dir.files) = Len(Retained)

\* C21 for the sources whose paths have file stems of their own.
C21_OneFilePerFrameDistinctStems ==
    (SavedRunDone /\ DistinctStems)
    => /\ Cardinality(dir.files) = Cardinality(PersistedIdx)
       /\ dir.files = {frame_stem(Retained[k].meta) : k \in 1..Len(Retained)}
            \/ return_results = None
       /\ return_results # None => Cardinality(dir.files) = Len(Retained)

\* The file name the save step gives frame f of the source: the stem of
\* its path, or frame_<f> for a frame held in memory.
ExpectedName(f) ==
    LET fd == ValidFrames[f + 1]
    IN IF fd.tag = "Path" THEN <<"stem", args.source.items[fd.id + 1].stem>>
       ELSE <<"frame", f>>

\* The frame indices whose save failed.
SaveFailedIdx == {f[1] : f \in {g \in failures : g[2] = "save"}}

\* C22, the state part, for every strategy: a file is written only with a
\* save directory configured and annotation on, under the name of its
\* frame; without annotation the retained frames carry no annotated image;
\* a frame whose write failed is not retained, and in a pipeline it is not
\* counted by the progress bar.
C22_SavedFiles ==
    /\ OpsAt("save") # {} => (args.save_dir # None /\ args.annotate)
    /\ \A i \in OpsAt("save") :
          fs_ops[i].out = "ok" => ExpectedName(fs_ops[i].at) \in dir.files
    /\ dir.files \ {StaleFile} = {ExpectedName(f) : f \in PersistedIdx}
    /\ \A k \in 1..Len(Retained) :
          /\ Retained[k].annotated = args.annotate
          /\ Retained[k].meta.frame_idx \notin SaveFailedIdx
    /\ (Pipelined /\ pc = "done")
         => /\ pb = Cardinality(YieldedIdx \ FailedIdx)
            /\ pb <= Cardinality(YieldedIdx \ SaveFailedIdx)

\* The step is the save worker taking a frame from its inbound channel.
PersistStep == Pipelined /\ Len(annotate_ch') < Len(annotate_ch)

\* C22: the save worker of a pipeline writes a file for the frame it takes
\* if and only if a save directory is configured and the frame carries an
\* annotated image, which it does exactly when annotation is on; the file
\* is named after the stem of the frame's path, or frame_<frame_idx> when
\* it has none; a frame that is not written is handed on unchanged, and a
\* frame whose write fails is dropped: it is neither retained nor counted.
C22_PersistWritesIffAnnotated ==
    /\ [] C22_SavedFiles
    /\ [][PersistStep =>
            LET item == Head(annotate_ch)
                idx == item.meta.frame_idx
                name == IF item.meta.source_path = None THEN <<"frame", idx>>
                        ELSE <<"stem",
                               args.source.items[item.meta.source_path[1] + 1].stem>>
                writes == fs_ops' # fs_ops
                op == fs_ops'[Len(fs_ops')]
            IN /\ item.annotated = args.annotate
               /\ writes <=> (args.save_dir # None /\ item.annotated)
               /\ ~writes => /\ dir' = dir
                             /\ worker'["save"].hold = <<item>>
               /\ writes =>
                    /\ fs_ops' = Append(fs_ops, op)
                    /\ op.op = "save" /\ op.by = "save" /\ op.at = idx
                    /\ op.out = "ok" => /\ dir'.files = dir.files \cup {name}
                                        /\ worker'["save"].hold = <<item>>
                    /\ op.out = "err" => /\ dir' = dir
                                         /\ worker'["save"].hold = << >>
                                         /\ worker'["save"].pc = "recv"
                                         /\ <<idx, "save">> \in failures']_vars

\* A finished pipeline on two paths with a stem of their own: the write of
\* frame 0 failed, frame 1 was written under its stem, retained and
\* counted.
C22_Witness ==
    /\ Pipelined /\ pc = "done"
    /\ DistinctStems
    /\ failures = {<<0, "save">>}
    /\ dir.files = {<<"stem", 1>>}
    /\ RetainedIdx = {1}
    /\ pb = 1

\* ------------------------------------------------- claims on the batches

\* ceil(n / s)
CeilDiv(n, s) == (n + s - 1) \div s

\* The frame indices of the slots of batch b (from 1) for batch size s.
SlotsOf(b, s) == ((b - 1) * s)..(b * s - 1)

\* C23: for a batchable source with n valid frames and a batch size
\* s >= 1, BatchSourceLoader has and yields ceil(n / s) batches, batch b
\* holding frames of slots (b-1)*s .. b*s-1 in increasing order; a batch
\* none of whose decodes failed holds s frames, the last one
\* n - (ceil(n/s) - 1) * s; and a finished run of a batched strategy in
\* which no frame met a failure leaves the progress bar at n.
C23_BatchesOfSizeS ==
    (IsBatchLoader /\ is_batch(args.source)
     /\ args.batch # None /\ args.batch[1] >= 1)
    => LET n == Len(ValidFrames)
           s == args.batch[1]
           nb == CeilDiv(n, s)
       IN /\ BatchSourceLoader_len(loader) = nb
          /\ Len(yielded) <= nb
          /\ pc = "done" => Len(yielded) = nb
          /\ \A b \in 1..Len(yielded) :
                LET metas == yielded[b].metas
                IN /\ \A i \in 1..Len(metas) : metas[i].frame_idx \in SlotsOf(b, s)
                   /\ \A i \in 1..(Len(metas) - 1) :
                         metas[i].frame_idx < metas[i + 1].frame_idx
                   /\ decode_failed \cap SlotsOf(b, s) = {}
                        => Len(yielded[b].images)
                             = IF b < nb THEN s ELSE n - (nb - 1) * s
          /\ (pc = "done" /\ decode_failed = {} /\ failures = {}) => pb = n

\* A finished run on three paths with batch size 2: batches of 2 and 1,
\* every frame processed, the progress bar at 3.
C23_Witness ==
    /\ IsBatchLoader /\ pc = "done"
    /\ Len(ValidFrames) = 3 /\ args.batch = Some(2)
    /\ Len(yielded) = 2
    /\ Len(yielded[1].images) = 2 /\ Len(yielded[2].images) = 1
    /\ decode_failed = {} /\ failures = {}
    /\ pb = 3

\* ------------------------------------------------ claims on the fallback

\* The step is the infer worker of the batched pipeline taking a batch and
\* inferring it per image: the flag was set before, or predict_batch fails
\* in this step.
FallbackStep ==
    /\ infer_fn = "BatchChannelPipeline"
    /\ Len(load_ch') < Len(load_ch)
    /\ infer_failed'

\* The frames of a batch whose call in pi gave a result, in input order,
\* as the infer worker hands them on.
RECURSIVE PresentOf(_, _, _)
PresentOf(item, pi, j) ==
    IF j > Len(item.images) THEN << >>
    ELSE (IF pi[j].out = "ok"
          THEN <<[image |-> item.images[j],
                  result |-> [image |-> item.images[j]],
                  meta |-> item.metas[j]]>>
          ELSE << >>)
         \o PresentOf(item, pi, j + 1)

\* C24: when the infer worker runs batch_infer_fallback on a batch of k
\* images, the engine is called by predict_image exactly k times, call j
\* on image j; the k outcomes are handed on in input order, outcome j with
\* image j and meta j, present when call j gave a result and absent when it
\* gave an error or an empty list; an absent outcome stops neither the
\* calls for the images after it nor the worker or the invocation.
C24_FallbackOnePerImage ==
    [][FallbackStep =>
         LET item == Head(load_ch)
             k == Len(item.images)
             new == SubSeq(calls', Len(calls) + 1, Len(calls'))
             pi == IF infer_failed THEN new ELSE Tail(new)
         IN /\ Len(item.metas) = k
            /\ Len(pi) = k
            /\ ~infer_failed => Head(new).fn = "predict_batch"
            /\ \A j \in 1..k :
                  /\ pi[j].fn = "predict_image" /\ pi[j].n = 1
                  /\ pi[j].at = item.metas[j].frame_idx
                  /\ pi[j].out # "ok"
                       => <<item.metas[j].frame_idx, "infer">> \in failures'
                  /\ pi[j].out = "ok"
                       => <<item.metas[j].frame_idx, "infer">> \notin failures'
            /\ worker'["infer"].hold = PresentOf(item, pi, 1)
            /\ worker'["infer"].pc \in {"recv", "send"}
            /\ pc' = "run"]_vars

\* The infer worker after predict_batch failed on a batch of two images
\* and the fallback ran: the call for image 0 failed, the call for image 1 was made all the same and its
\* result is in the worker's hands.
C24_Witness ==
    /\ infer_fn = "BatchChannelPipeline" /\ pc = "run"
    /\ calls = <<Call("predict_batch", 0, "err", 0),
                 Call("predict_image", 0, "err", 1),
                 Call("predict_image", 1, "ok", 1)>>
    /\ worker["infer"].pc = "send"
    /\ Len(worker["infer"].hold) = 1
    /\ worker["infer"].hold[1].meta.frame_idx = 1

\* --------------------------------- claims on a partial batched success

\* The calls of predict_batch that gave results for only some images of
\* their batch: Ok with fewer results than images, or Ok with an empty
\* list for some image of a batch of two or more.
PartialBatchCalls ==
    {i \in 1..Len(calls) :
       /\ calls[i].fn = "predict_batch"
       /\ \/ /\ calls[i].out = "ok"
             /\ 0 < calls[i].n /\ calls[i].n < Len(BatchMetas(calls[i].at))
          \/ calls[i].out = "empty" /\ calls[i].n >= 2}

\* C25: when predict_batch gives results for only some images of a batch,
\* a batched strategy treats the batch as failed: it sets the flag and
\* infers each image of the batch by a predict_image call of its own.
C25_PartialBatchRerunPerItem ==
    Batched
    => \A i \in PartialBatchCalls :
          LET metas == BatchMetas(calls[i].at)
          IN /\ infer_failed
             /\ Len(calls) >= i + Len(metas)
             /\ \A j \in 1..Len(metas) :
                   /\ calls[i + j].fn = "predict_image"
                   /\ calls[i + j].at = metas[j].frame_idx

\* What the batched strategies do with such a batch: no image of it is
\* ever inferred by predict_image, the flag is set only by a predict_batch
\* that returned an error, the images without a result are not retained, and an empty list for an image ends
\* the invocation in a panic.
C25_PartialBatchNotRerun ==
    Batched
    => \A i \in PartialBatchCalls :
          LET metas == BatchMetas(calls[i].at)
              idxs == {metas[j].frame_idx : j \in 1..Len(metas)}
          IN /\ \A k \in 1..Len(calls) :
                   calls[k].fn = "predict_image" => calls[k].at \notin idxs
             /\ infer_failed <=> BatchErrs # {}
             /\ calls[i].out = "ok"
                  => \A j \in (calls[i].n + 1)..Len(metas) :
                        metas[j].frame_idx \notin RetainedIdx
             /\ calls[i].out = "empty"
                  => (idxs \cap RetainedIdx = {} /\ pc \in {"run", "panic"})

\* ------------------------------------------- claims on the flag's lifetime

\* The strategy function is running or has returned.
InStrategy == pc \in {"run", "done", "panic"}

\* C26, the state part: whatever flag earlier invocations on the model
\* ended with, a batched strategy has its flag false until a predict_batch
\* of its own fails, and its first engine call is predict_batch on its
\* first batch.
C26_FlagOfThisInvocation ==
    (Batched /\ InStrategy)
    => /\ infer_failed <=> BatchErrs # {}
       /\ calls # << >>
            => (calls[1].fn = "predict_batch" /\ calls[1].at = 0)

\* The step is the creation of the flag by a batched strategy.
FlagCreated == pc = "prepared" /\ pc' = "run" /\ ~infer_failed'

\* The step is a failed predict_batch of the running invocation.
FlagSet ==
    /\ pc = "run" /\ ~infer_failed /\ infer_failed'
    /\ Len(calls') > Len(calls)
    /\ calls'[Len(calls) + 1].fn = "predict_batch"
    /\ calls'[Len(calls) + 1].out = "err"

\* C26: the flag belongs to one invocation of a batched strategy. Each
\* invocation creates it false and calls predict_batch on its first batch,
\* also after an invocation on the same model that ended with the flag
\* set; the flag changes only when the invocation creates it and when a
\* predict_batch of that invocation fails, and what the invocation does
\* never depends on the flag an earlier one left.
C26_FlagLocalToInvocation ==
    /\ [] C26_FlagOfThisInvocation
    /\ [][infer_failed' # infer_failed => (FlagCreated \/ FlagSet)]_vars

\* A second invocation on a model whose first invocation ended with the
\* flag set: it called predict_batch on its first batch and returned with
\* its own flag unset.
C26_Witness ==
    /\ earlier = <<TRUE>>
    /\ Batched /\ pc = "done"
    /\ calls # << >>
    /\ calls[1] = Call("predict_batch", 0, "ok", Len(BatchMetas(0)))
    /\ ~infer_failed

\* ------------------------------------------- claims on the online entry

\* run_online_prediction was called with a source that is not in memory.
OnlineRefused ==
    args.online /\ args.source.kind \notin {"Image", "ImageVec"}

\* C28, the state part: run_online_prediction called with a source that is
\* not in memory goes from its start to a configuration error and nowhere
\* else, with no strategy selected, no result list, no loader, no worker,
\* no engine call and no operation on the save directory; and the
\* configuration error has no other cause.
C28_RefusedState ==
    /\ OnlineRefused
         => /\ pc \in {"start", "config_error"}
            /\ infer_fn = "unset"
            /\ return_results = None
            /\ loader = NoLoader /\ yielded = << >>
            /\ calls = << >> /\ pb = 0
            /\ fs_ops = << >>
            /\ \A w \in Stages : worker[w].pc = "unspawned"
    /\ pc = "config_error" => OnlineRefused
    /\ (args.online /\ ~OnlineRefused) => pc # "config_error"

\* C28: run_online_prediction accepts a single in-memory image and a list
\* of in-memory images and returns a configuration error for every other
\* source before any other effect: the save directory is left as it was,
\* stale files included, the engine is not called and no result is made.
C28_OnlineOnlyInMemory ==
    /\ [] C28_RefusedState
    /\ [][OnlineRefused
          => /\ pc = "start" /\ pc' = "config_error"
             /\ UNCHANGED <<args, infer_fn, loaderVars, engineVars, pipeVars,
                            outVars, fsVars>>]_vars

\* run_online_prediction refused a directory source; the save directory of
\* an earlier run is still there with its file.
C28_Witness ==
    /\ args.online
    /\ args.source.kind = "Directory" /\ args.source.exists
    /\ pc = "config_error"
    /\ args.save_dir # None
    /\ dir = StaleDir

\* ------------------------------------------ claims on the batch size

\* C27: a BatchSourceLoader built with no batch size or with batch size 0
\* works with batch size 1: len() equals total_frames() and the number of
\* valid frames of the source, batch b holds the one frame b, or nothing
\* when its decode failed, and a complete iteration yields len() batches.
C27_NoBatchSizeMeansOne ==
    (IsBatchLoader /\ (args.batch = None \/ args.batch = Some(0)))
    => /\ loader.batch_size = 1
       /\ BatchSourceLoader_len(loader) = total_frames(loader)
       /\ BatchSourceLoader_len(loader) = Len(ValidFrames)
       /\ \A b \in 1..Len(yielded) :
             /\ Len(yielded[b].images) = IF (b - 1) \in decode_failed THEN 0 ELSE 1
             /\ \A i \in 1..Len(yielded[b].metas) :
                   yielded[b].metas[i].frame_idx = b - 1
       /\ pc = "done" => Len(yielded) = BatchSourceLoader_len(loader)

\* A complete iteration with batch size 0 over three paths: three batches
\* of one frame.
C27_Witness ==
    /\ IsBatchLoader /\ pc = "done"
    /\ args.batch = Some(0)
    /\ Len(ValidFrames) = 3
    /\ Len(yielded) = 3
    /\ \A b \in 1..3 : Len(yielded[b].images) = 1
    /\ total_frames(loader) = 3

\* ------------------------------------------------ claims on the config

\* The path names a file with the extension toml whose content is a TOML
\* document.
ValidTomlFile(path) ==
    /\ path.kind = "file"
    /\ path.ext = Some("toml")
    /\ path.content.utf8 /\ path.content.valid

\* parse_toml returns an error and no PredictArgs.
TomlRefused == pc' = "toml_error" /\ args' = args

\* C29: parse_toml returns an error, and no PredictArgs, for every path
\* that is not a valid .toml file: one that does not exist, a file whose
\* name does not carry the extension toml, a .toml file that does not hold
\* valid TOML.
C29_InvalidTomlPathIsError ==
    [][(pc = "config" /\ ~ValidTomlFile(args)) => TomlRefused]_vars

\* A readable file without any extension that holds a TOML document.
NoExtensionToml(path) ==
    /\ path.kind = "file" /\ path.ext = None
    /\ path.readable
    /\ path.content.utf8 /\ path.content.valid

\* C29 with the files that have no extension at all left out: those are
\* parsed like a .toml file, every other path that is not a valid .toml
\* file is refused, and a PredictArgs is returned only for a file that
\* holds a TOML document.
C29_RefusedUnlessNoExtension ==
    [][pc = "config"
       => /\ (~ValidTomlFile(args) /\ ~NoExtensionToml(args)) => TomlRefused
          /\ NoExtensionToml(args)
               => (pc' = "start" /\ args' = PredictArgsOf(args.content))
          /\ pc' = "start"
               => (args.kind = "file" /\ args.content.valid
                   /\ args.ext \in {None, Some("toml")})]_vars

\* ------------------------------------------- claims on deferred decoding

\* The source is made of paths.
PathBased == args.source.kind \in {"ImagePath", "Directory", "ImagePathVec"}

\* The frame indices passed to image::open so far: those whose decode
\* failed and those yielded.
Opened == IF PathBased THEN decode_failed \cup YieldedIdx ELSE {}

\* C30, the state part: for a source made of paths no image is opened
\* before the first next(); a BatchSourceLoader has opened images of the
\* batches it has yielded and of no other, a SourceLoader images up to the
\* frame it yielded last and none after it.
C30_NothingDecodedAhead ==
    PathBased
    => /\ loader = NoLoader => Opened = {}
       /\ IsBatchLoader
            => /\ loader.current_idx = Len(yielded)
               /\ Opened \subseteq
                    0..(Len(yielded) * loader.batch_size - 1)
       /\ IsSourceLoader
            => /\ Opened = 0..(loader.current_idx - 1)
               /\ (yielded # << >> /\ pc = "iter")
                    => yielded[Len(yielded)].meta.frame_idx
                         = loader.current_idx - 1

\* C30: the constructor of a loader opens no image of a source made of
\* paths; a next() of BatchSourceLoader yields at most one batch and opens
\* images of that batch only, so no image of batch b + 1 is opened before
\* batch b is yielded; a next() of SourceLoader yields at most one image
\* and opens none after it.
C30_DecodeDeferredToNext ==
    /\ [] C30_NothingDecodedAhead
    /\ [][PathBased =>
            /\ loader = NoLoader
                 => (decode_failed' = decode_failed /\ yielded' = yielded)
            /\ loader # NoLoader => Len(yielded') <= Len(yielded) + 1
            /\ IsBatchLoader
                 => (decode_failed' \ decode_failed)
                      \subseteq SlotsOf(Len(yielded) + 1, loader.batch_size)]_vars

\* A BatchSourceLoader over three paths with batch size 2 after its first
\* next(): the decode of frame 0 failed, frame 1 is yielded, and frame 2,
\* of the second batch, has not been opened.
C30_Witness ==
    /\ IsBatchLoader /\ pc = "iter"
    /\ args.source.kind = "ImagePathVec"
    /\ Len(ValidFrames) = 3 /\ loader.batch_size = 2
    /\ Len(yielded) = 1
    /\ decode_failed = {0}
    /\ YieldedIdx = {1}
    /\ 2 \notin Opened

\* ------------------------------- the staged pipeline on a longer source

\* Most frames of the source of an invocation of the staged pipeline on
\* its own.
MaxLoaded == 6

\* The invocations of channel_pipeline_infer on up to MaxLoaded in-memory
\* images, without annotation or saving and with result retention off.
StagedArgs ==
    [online : {FALSE},
     source : {[kind |-> "ImageVec", exists |-> TRUE, readable |-> TRUE,
                items |-> ItemsOf([i \in 1..n |-> "mem"])] : n \in 0..MaxLoaded},
     infer_fn : {"ChannelPipeline"},
     batch : {Some(DefaultBatch)},
     channel_capacity : {Some(n) : n \in 1..MaxCap},
     annotate : {FALSE},
     save_dir : {None},
     return_result : {FALSE}]

InitStaged ==
    /\ args \in StagedArgs
    /\ dir = NoDir
    /\ pc = "start"
    /\ loader = NoLoader
    /\ yielded = << >>
    /\ decode_failed = {}
    /\ InitIdle

NextStaged ==
    \/ run_prediction
    \/ prepare_save_dir
    \/ channel_pipeline_infer_begin
    \/ load_next
    \/ load_send
    \/ infer_recv
    \/ infer_send
    \/ annotate_recv
    \/ annotate_send
    \/ save_recv
    \/ save_send
    \/ collect_recv
    \/ join

SpecStaged == InitStaged /\ [][NextStaged]_vars

\* ------------------------------------------ claims on the memory bound

\* The frames the loader has yielded that Collect has not consumed and no
\* stage has dropped.
InFlight == Len(yielded) - pb - Cardinality(FailedIdx)

\* The frames held by the channels and in the hands of the workers.
Held ==
    Len(load_ch) + Len(infer_ch) + Len(annotate_ch) + Len(save_ch)
    + Len(worker["load"].hold) + Len(worker["infer"].hold)
    + Len(worker["annotate"].hold) + Len(worker["save"].hold)

\* C31: in channel_pipeline_infer with result retention off, the number of
\* frames loaded and not yet consumed by Collect or dropped by a failing
\* stage is at most 5 * channel_capacity in every state.
C31_InFlightWithinFiveCapacities ==
    (infer_fn = "ChannelPipeline" /\ return_results = None /\ pc = "run")
    => InFlight <= 5 * Capacity

\* C31 with the frame each sending stage has in hand counted: four
\* channels of channel_capacity frames and one frame in each of the four
\* sending stages.
C31_InFlightWithinChannelsAndHands ==
    (infer_fn = "ChannelPipeline" /\ return_results = None /\ pc = "run")
    => /\ InFlight = Held
       /\ InFlight <= 4 * Capacity + 4

\* ------------------------------------- claims on the extension filter

\* The source is a directory that can be listed or a list of paths.
ListOfPaths ==
    \/ args.source.kind = "ImagePathVec"
    \/ args.source.kind = "Directory" /\ args.source.exists
                                      /\ args.source.readable

\* Among the extensions tried, those that are one of the eight image
\* extensions when compared without regard to case.
RecognizedExts == {"jpg", "PNG"}

\* The entries of the source with such an extension.
RecognizedIds ==
    {args.source.items[i].id :
        i \in {k \in 1..Len(args.source.items) :
                 args.source.items[k].ext \in RecognizedExts}}

\* The frame references a loader holds, padding left out.
HeldRefs ==
    IF IsSourceLoader THEN {loader.frames[i] : i \in 1..Len(loader.frames)}
    ELSE IF IsBatchLoader
    THEN UNION {{loader.batches[b][i] : i \in 1..Len(loader.batches[b])}
                : b \in 1..Len(loader.batches)} \ {FrameNone}
    ELSE {}

\* The entry behind frame idx of the loader.
EntryOf(idx) ==
    IF IsSourceLoader THEN loader.frames[idx + 1].id
    ELSE loader.batches[(idx \div loader.batch_size) + 1]
                       [(idx % loader.batch_size) + 1].id

\* The entries yielded, and those passed to image::open.
YieldedIds ==
    IF IsBatchLoader
    THEN UNION {{yielded[b].metas[i].source_path[1] :
                   i \in 1..Len(yielded[b].metas)} : b \in 1..Len(yielded)}
    ELSE {yielded[k].meta.source_path[1] : k \in 1..Len(yielded)}

DecodedIds == YieldedIds \cup {EntryOf(idx) : idx \in decode_failed}

\* C32, the state part: the loader of a directory or path list counts
\* exactly the entries with a recognized extension and opens and yields
\* no other entry.
C32_CountsRecognizedOnly ==
    (ListOfPaths /\ loader # NoLoader)
    => /\ IsSourceLoader
            => SourceLoader_len(loader) = Cardinality(RecognizedIds)
       /\ IsBatchLoader
            => total_frames(loader) = Cardinality(RecognizedIds)
       /\ {fd.id : fd \in HeldRefs} = RecognizedIds
       /\ DecodedIds \subseteq RecognizedIds
       /\ pc = "done" => DecodedIds = RecognizedIds

\* C32: for a directory or path-list source len() and total_frames() count
\* the entries whose extension is one of jpg, jpeg, png, bmp, gif, webp,
\* tiff, tif without regard to case; an entry with another extension or
\* none is never counted, opened or yielded; and the frames are chosen
\* once, by the constructor: no next() changes them or the counts.
C32_FilteredOnceAtConstruction ==
    /\ [] C32_CountsRecognizedOnly
    /\ [][(ListOfPaths /\ loader # NoLoader)
            => /\ HeldRefs' = HeldRefs
               /\ loader'.len = loader.len
               /\ IsBatchLoader => total_frames(loader') = total_frames(loader)]_vars

\* A finished iteration over a directory of three entries, x.PNG, y.txt
\* and one without extension: one frame counted, the first entry yielded.
C32_Witness ==
    /\ pc = "done" /\ IsSourceLoader
    /\ args.source.kind = "Directory"
    /\ Len(args.source.items) = 3
    /\ args.source.items[1].ext = "PNG"
    /\ args.source.items[2].ext = "txt"
    /\ args.source.items[3].ext = ""
    /\ SourceLoader_len(loader) = 1
    /\ YieldedIds = {0}

\* ------------------------------ claims on the total_frames of a meta

\* The metas yielded by a BatchSourceLoader.
YieldedMetas ==
    UNION {{yielded[b].metas[i] : i \in 1..Len(yielded[b].metas)}
           : b \in 1..Len(yielded)}

\* C33: every SourceMeta a BatchSourceLoader yields has total_frames equal
\* to the loader's total_frames(), the number of real frames, for every
\* batch size and number of frames, a padded last batch included.
C33_MetaTotalIsTotalFrames ==
    IsBatchLoader
    => \A meta \in YieldedMetas : meta.total_frames = total_frames(loader)

\* What next() writes: the number of slots, padding included; it is
\* total_frames() when the frames fill the last batch.
C33_MetaTotalCountsSlots ==
    IsBatchLoader
    => \A meta \in YieldedMetas :
          /\ meta.total_frames = BatchSourceLoader_len(loader) * loader.batch_size
          /\ (is_batch(args.source)
              /\ Len(ValidFrames) % loader.batch_size = 0)
               => meta.total_frames = total_frames(loader)

\* -------------------------------- claims on the destination directory

\* The invocation is one that ends in the error of its source: the
\* constructor of the loader fails.
SourceFails == ~SourceFrames(args.source).ok

\* C34: an invocation that fails with the error of its source (a
\* directory source that is not found) has no effect on the destination
\* directory: no step of it changes the directory or its contents.
C34_SourceErrorLeavesDir ==
    [][SourceFails => dir' = dir]_vars

\* What the failed invocation does do: the directory is prepared before
\* the loader is built, and nothing is written to it.
C34_SourceErrorAfterPrepare ==
    (SourceFails /\ pc = "error")
    => /\ args.save_dir # None
           => /\ dir = [exists |-> TRUE, files |-> {}]
              /\ fs_ops # << >>
       /\ OpsAt("save") = {}

\* C35: an invocation with a destination directory configured and
\* annotation off writes no file to it and leaves what the directory held
\* before unchanged: no step of it changes the directory.
C35_NoWriteLeavesDir ==
    [][(args.save_dir # None /\ ~args.annotate) => dir' = dir]_vars

\* Such an invocation writes no file, and once its prologue has run the
\* directory is there and empty.
C35_NoWriteButCleared ==
    (args.save_dir # None /\ ~args.annotate)
    => /\ OpsAt("save") = {}
       /\ pc \in {"prepared", "run", "done", "error"}
            => dir = [exists |-> TRUE, files |-> {}]

\* ------------------------- the save directory inside or outside the source

\* The invocations of run_prediction on a directory source, with
\* annotation on and a save directory that is the directory of the source
\* ("src") or another one ("out").
OverlapArgs ==
    {a \in [online : {FALSE},
            source : {[kind |-> "Directory", exists |-> TRUE, readable |-> TRUE,
                       items |-> ItemsOf([i \in 1..n |-> "jpg"])] :
                         n \in 0..MaxFrames} \cup {MissingDir},
            infer_fn : InferFns,
            batch : {Some(n) : n \in (1..MaxBatch) \cup {DefaultBatch}},
            channel_capacity : {Some(n) : n \in (1..MaxCap) \cup {DefaultCapacity}},
            annotate : {TRUE},
            save_dir : {Some("src"), Some("out")},
            return_result : {TRUE}] :
        /\ IF ReadsBatch(a) THEN a.batch[1] <= MaxBatch
           ELSE a.batch = Some(DefaultBatch)
        /\ IF ReadsCapacity(a) THEN a.channel_capacity[1] <= MaxCap
           ELSE a.channel_capacity = Some(DefaultCapacity)}

\* A save directory that is the directory of the source is there exactly
\* when the source is; another one is absent or left by an earlier run.
InitOverlap ==
    /\ args \in OverlapArgs
    /\ dir \in (IF SaveDirIsSource(args)
                THEN {[exists |-> args.source.exists, files |-> {}]}
                ELSE {NoDir, StaleDir})
    /\ pc = "start"
    /\ loader = NoLoader
    /\ yielded = << >>
    /\ decode_failed = {}
    /\ InitIdle

NextOverlap ==
    \/ run_prediction
    \/ prepare_save_dir
    \/ sequential_infer_begin
    \/ batch_sequential_infer_begin
    \/ channel_pipeline_infer_begin
    \/ batch_channel_pipeline_infer_begin
    \/ sequential_infer_step
    \/ batch_sequential_infer_step
    \/ load_next
    \/ load_send
    \/ infer_recv
    \/ batch_infer_recv
    \/ infer_send
    \/ annotate_recv
    \/ annotate_send
    \/ save_recv
    \/ save_send
    \/ collect_recv
    \/ join

SpecOverlap == InitOverlap /\ [][NextOverlap]_vars

\* The image files of the source.
SourceFiles(source) == {source.items[i].id : i \in 1..Len(source.items)}

\* C36: clearing the destination directory removes no file of the source,
\* also when the destination directory is the source directory: every
\* image of the source that was there before a step is there after it, so
\* it is there when the frames are enumerated and when the invocation ends.
C36_ClearingKeepsSourceFiles ==
    [][SourceFiles(args.source) \subseteq SourceFiles(args'.source)]_vars

\* With a destination that is not the source directory the source is left
\* as it was; with one that is, a source that was there is empty once the
\* prologue has run, and the invocation goes on with no frame.
C36_SourceKeptUnlessSaveDirIsSource ==
    /\ ~SaveDirIsSource(args)
         => (pc = "done" => YieldedIdx \cup decode_failed = AllIdx)
    /\ (SaveDirIsSource(args) /\ pc \in {"prepared", "run", "done"})
         => /\ args.source.items = << >>
            /\ yielded = << >> /\ calls = << >>

\* ------------------------------------- claims on a closed outbound channel

\* The step takes an item from the channel from Load to Infer.
InferConsumes == Len(load_ch') < Len(load_ch)

\* C37: in both pipeline strategies, once a send of the Infer worker to
\* the Annotate stage has failed, the Infer worker takes nothing more from
\* its inbound channel and makes no further call to the inference engine.
C37_InferStopsAfterFailedSend ==
    [][(Pipelined /\ "infer" \in send_failed)
         => /\ ~InferConsumes
            /\ calls' = calls]_vars

\* C37 for channel_pipeline_infer, whose Infer worker leaves its loop at
\* the failed send.
C37_StagedInferStopsAfterFailedSend ==
    /\ [](("infer" \in send_failed /\ infer_fn = "ChannelPipeline")
            => worker["infer"].pc = "done")
    /\ [][(infer_fn = "ChannelPipeline" /\ "infer" \in send_failed)
            => /\ ~InferConsumes
               /\ calls' = calls]_vars

\* ------------------------------- claims on the agreement of the strategies

\* The elements of a set of frame indices in ascending order.
RECURSIVE Ascending(_)
Ascending(S) ==
    IF S = {} THEN << >>
    ELSE LET m == CHOOSE x \in S : \A y \in S : x <= y
         IN <<m>> \o Ascending(S \ {m})

\* The frame indices retained, in the order of the retained list.
RetainedSeq == [k \in 1..Len(Retained) |-> Retained[k].meta.frame_idx]

\* What sequential_infer retains when the outcomes of a frame are those
\* the invocation met: the frames without a decode, inference, annotation
\* or save failure, in the order of the source.
Survivors == Ascending(AllIdx \ (decode_failed \cup FailedIdx))

\* C38: for a source of several images and outcomes that depend on the
\* frame only, every strategy ends by returning, with the same retained
\* sequence of frame indices: the frames that met no failure, in source
\* order, whatever the batch size and the channel capacity.
C38_StrategiesRetainSameSequence ==
    (is_batch(args.source) /\ return_results # None /\ pc \in {"done", "panic"})
    => /\ pc = "done"
       /\ RetainedSeq = Survivors

\* C38 for the invocations that return: the retained sequence is the same
\* function of the per-frame outcomes in the four strategies.
C38_SameSequenceWhenReturned ==
    (is_batch(args.source) /\ return_results # None /\ pc = "done")
    => RetainedSeq = Survivors

\* --------------------------------------- claims on the size of a batch

\* The batches handed to predict_batch: the call recorded for batch b is
\* made with the images the loader yielded as its item b.
BatchCallsAt ==
    {calls[i].at : i \in {k \in 1..Len(calls) : calls[k].fn = "predict_batch"}}

\* C39: every batch a BatchSourceLoader yields, and so every batch a
\* batched strategy hands to predict_batch, holds at least one frame, also
\* when images of the source fail to decode.
C39_NoEmptyBatch ==
    IsBatchLoader
    => /\ \A b \in 1..Len(yielded) : yielded[b].images # << >>
       /\ \A b \in BatchCallsAt :
             b + 1 <= Len(yielded) => yielded[b + 1].images # << >>

\* A batch is empty only when the decode of each of its frames failed:
\* without a failed decode every batch yielded holds a frame.
C39_EmptyOnlyWhenAllDecodesFail ==
    IsBatchLoader
    => \A b \in 1..Len(yielded) :
          yielded[b].images = << >>
          => /\ SlotsOf(b, loader.batch_size) \cap decode_failed # {}
             /\ SlotsOf(b, loader.batch_size) \cap AllIdx \subseteq decode_failed

\* ------------------------------------ claims on the end of a pipeline run

\* The stages at which frame f was dropped.
DroppedAt(f) == {x[2] : x \in {y \in failures : y[1] = f}}

\* The frames in the four channels and in the hands of the workers.
LeftInFlight ==
    Len(load_ch) + Len(infer_ch) + Len(annotate_ch) + Len(save_ch)
    + Len(worker["load"].hold) + Len(worker["infer"].hold)
    + Len(worker["annotate"].hold) + Len(worker["save"].hold)
    + Len(worker["collect"].hold)

\* C40: when an invocation of a pipeline strategy has returned normally
\* the four channels are empty and no worker holds a frame, and every
\* frame the Load stage produced is accounted for exactly once: it was
\* dropped by exactly one stage, or it was consumed by Collect, counted in
\* the progress and, with retention on, present once in the results.
C40_EveryLoadedFrameAccountedOnce ==
    (Pipelined /\ pc = "done")
    => /\ LeftInFlight = 0
       /\ \A f \in YieldedIdx : Cardinality(DroppedAt(f)) <= 1
       /\ FailedIdx \subseteq YieldedIdx
       /\ pb = Cardinality(YieldedIdx \ FailedIdx)
       /\ return_results # None
            => /\ RetainedIdx = YieldedIdx \ FailedIdx
               /\ Len(Retained) = Cardinality(RetainedIdx)

\* A returned pipeline over two frames with retention on: frame 0 was
\* dropped by the annotate stage, frame 1 was collected.
C40_Witness ==
    /\ Pipelined /\ pc = "done"
    /\ return_results # None
    /\ Cardinality(YieldedIdx) = 2
    /\ failures = {<<0, "annotate">>}
    /\ RetainedIdx = {1}
    /\ pb = 1

=============================================================================
